---- MODULE Spec2Model ----
(***************************************************************************)
(* Model of the amp-extras WebSocket bridge (crates/core): the JSON-RPC    *)
(* router, the per-connection thread (handshake, Hub registration, message *)
(* loop), the Hub broadcast fan-out and the initial-state burst.           *)
(***************************************************************************)
EXTENDS Integers, Sequences, FiniteSets, TLC

\* ------------------------------------------------------------------------
\* Bounds
\* ------------------------------------------------------------------------
\* number of TCP streams the acceptor hands to connection threads
MaxConns == 2
\* number of inbound text frames handled over all connections
MaxFrames == 2
\* number of broadcasts issued by editor-side handlers outside a burst
MaxBcast == 2
\* number of connections followed together with their initial-state burst
BurstConns == 1
\* number of connections followed while they read inbound frames
RouterConns == 1
\* number of connections followed while their loop drains the outbound queue
LoopConns == 2
\* number of start() and stop() calls followed
MaxLife == 4
\* number of pongs a client sends before it falls silent
MaxPongs == 1
\* how many loop iterations after a ping its pong may take to arrive
PongReplyIters == 1
\* windows open at once
MaxWins == 2
\* handler runs that read an editor state
MaxRuns == 4
\* runs of the visible-files handler among several windows
MaxVisibleRuns == 2
\* autocommand events in one timeline
MaxEvents == 2
\* how far the editor's clock runs, in debounce delays
MaxDelays == 2
\* characters in a file's content
MaxContent == 2
MaxTimers == 3
MaxProducers == 2
MaxWork == 3

Conns == 1..MaxConns

\* ------------------------------------------------------------------------
\* errors.rs: AmpError kinds and their JSON-RPC codes
\* ------------------------------------------------------------------------
ErrorKinds ==
    {"SerdeError", "InvalidArgs", "CommandNotFound", "ValidationError",
     "WebSocketError", "UrlParseError", "DatabaseError", "IoError",
     "AmpCliError", "ThreadParseError", "ConfigError", "HubError",
     "NotificationError", "ConversionError", "Other"}

to_jsonrpc_code_swapped(kind) ==
    CASE kind = "SerdeError"        -> -32700
      [] kind = "InvalidArgs"       -> -32601
      [] kind = "CommandNotFound"   -> -32602
      [] kind = "ValidationError"   -> -32600
      [] kind = "WebSocketError"    -> -32001
      [] kind = "UrlParseError"     -> -32600
      [] kind = "DatabaseError"     -> -32002
      [] kind = "IoError"           -> -32003
      [] kind = "AmpCliError"       -> -32004
      [] kind = "ThreadParseError"  -> -32700
      [] kind = "ConfigError"       -> -32005
      [] kind = "HubError"          -> -32006
      [] kind = "NotificationError" -> -32007
      [] kind = "ConversionError"   -> -32008
      [] OTHER                      -> -32603

to_jsonrpc_code(kind) ==
    CASE kind = "SerdeError"        -> -32700
      [] kind = "InvalidArgs"       -> -32602
      [] kind = "CommandNotFound"   -> -32601
      [] kind = "ValidationError"   -> -32600
      [] kind = "WebSocketError"    -> -32001
      [] kind = "UrlParseError"     -> -32600
      [] kind = "DatabaseError"     -> -32002
      [] kind = "IoError"           -> -32003
      [] kind = "AmpCliError"       -> -32004
      [] kind = "ThreadParseError"  -> -32700
      [] kind = "ConfigError"       -> -32005
      [] kind = "HubError"          -> -32006
      [] kind = "NotificationError" -> -32007
      [] kind = "ConversionError"   -> -32008
      [] OTHER                      -> -32603

\* ------------------------------------------------------------------------
\* Inbound text frames, described by the shape serde_json sees
\* ------------------------------------------------------------------------
\* id member: absent, a JSON string, a JSON number, or JSON null
NoId == "absent"
StrIds == {"r1", "r2"}
NumIds == {"n7"}
BadIds == {"null"}
IdVals == StrIds \cup NumIds \cup BadIds

MethodNames ==
    {"ping", "readFile", "ide/readFile", "nonexistent.command"}

\* what the invoked handler returns for the params and the file system it
\* finds: "ok" or the AmpError kind it raises
HandlerOutcomes(method) ==
    CASE method \in {"ping", "ide/ping", "authenticate"} -> {"ok"}
      [] method \in {"readFile", "ide/readFile"} -> {"ok", "InvalidArgs", "IoError"}
      [] method \in {"editFile", "ide/editFile"} -> {"ok", "InvalidArgs", "IoError", "Other"}
      [] method = "getDiagnostics" -> {"ok", "InvalidArgs"}
      [] method = "nvim/notify" -> {"ok", "InvalidArgs", "Other"}
      [] OTHER -> {"ok"}

\* the single-method frames: dialect keys, id, method and handler outcome
OneMethodFrames ==
    { [json |-> TRUE, cr |-> d = "cr", jr |-> d = "jr", id |-> i,
       methods |-> {m}, outcome |-> o] :
        d \in {"cr", "jr"}, i \in IdVals \cup {NoId},
        m \in MethodNames, o \in {"ok", "InvalidArgs", "IoError", "Other"} }

Frames ==
    { f \in OneMethodFrames :
        /\ f.outcome \in HandlerOutcomes(CHOOSE m \in f.methods : TRUE)
        /\ f.id \in {"r2", "null"} => f.methods = {"ping"} }
    \cup
    \* no method key at all (wrapped: only id; JSON-RPC: no "method")
    { [json |-> TRUE, cr |-> d = "cr", jr |-> d = "jr", id |-> i,
       methods |-> {}, outcome |-> "ok"] :
        d \in {"cr", "jr"}, i \in {NoId, "r1", "n7"} }
    \cup
    \* wrapped request with two method keys
    { [json |-> TRUE, cr |-> TRUE, jr |-> FALSE, id |-> i,
       methods |-> {"ping", "readFile"}, outcome |-> "ok"] : i \in {"r1"} }
    \cup
    \* both dialect keys, or neither
    { [json |-> TRUE, cr |-> b, jr |-> b, id |-> i,
       methods |-> {"ping"}, outcome |-> "ok"] :
        b \in BOOLEAN, i \in {NoId, "r1"} }
    \cup
    \* text that is not well-formed JSON (what it was meant to carry)
    { [json |-> FALSE, cr |-> d = "cr", jr |-> d = "jr", id |-> i,
       methods |-> {"ping"}, outcome |-> "ok"] :
        d \in {"cr", "jr"}, i \in {NoId, "r1"} }

\* ------------------------------------------------------------------------
\* rpc/router.rs
\* ------------------------------------------------------------------------
Ok(v) == [ok |-> TRUE, val |-> v]
Err(kind) == [ok |-> FALSE, val |-> kind]

\* commands::dispatch: the registry holds "ping" only
dispatch(command, outcome) ==
    IF command = "ping" THEN Ok("ok") ELSE Err("CommandNotFound")

route_method(method, outcome) ==
    IF method \in {"ping", "authenticate", "readFile", "editFile",
                   "getDiagnostics", "ide/ping", "ide/readFile",
                   "ide/editFile", "nvim/notify"}
    THEN IF outcome = "ok" THEN Ok("ok") ELSE Err(outcome)
    ELSE dispatch(method, outcome)

\* rpc/mod.rs ClientRequest::parse
ClientRequest_parse(f) ==
    IF Cardinality(f.methods) # 1
    THEN Err("ClientRequest must have exactly one method")
    ELSE Ok(CHOOSE m \in f.methods : TRUE)

\* responses on the wire
NoResponse == [dialect |-> "none"]
ServerResponse_success(id, method) ==
    [dialect |-> "wrapped", id |-> id, key |-> method, code |-> 0]
ServerResponse_error(id, code) ==
    [dialect |-> "wrapped", id |-> id, key |-> "error", code |-> code]
Response_result(id) ==
    [dialect |-> "jsonrpc", id |-> id, key |-> "result", code |-> 0]
Response_error(id, code) ==
    [dialect |-> "jsonrpc", id |-> id, key |-> "error", code |-> code]

\* result of handle_text: out = "Some" (response), "None", or "Err";
\* routed = the method handed to route_method ("" when none was)
Res(out, resp, err, routed, branch) ==
    [out |-> out, resp |-> resp, err |-> err, routed |-> routed, branch |-> branch]

handle_amp_request(f) ==
    LET parsed == ClientRequest_parse(f) IN
    IF ~parsed.ok THEN Res("Err", NoResponse, "Other", "", "wrapped")
    ELSE LET result == route_method(parsed.val, f.outcome) IN
         IF result.ok
         THEN Res("Some", ServerResponse_success(f.id, parsed.val), "", parsed.val, "wrapped")
         ELSE Res("Some", ServerResponse_error(f.id, to_jsonrpc_code(result.val)),
                  result.val, parsed.val, "wrapped")

handle_request_wrapped(f) ==
    LET method == CHOOSE m \in f.methods : TRUE
        result == route_method(method, f.outcome) IN
    IF result.ok
    THEN Res("Some", ServerResponse_success(f.id, method), "", method, "jsonrpc")
    ELSE Res("Some", ServerResponse_error(f.id, to_jsonrpc_code(result.val)),
             result.val, method, "jsonrpc")

handle_request(f) ==
    LET method == CHOOSE m \in f.methods : TRUE
        result == route_method(method, f.outcome) IN
    IF result.ok
    THEN Res("Some", Response_result(f.id), "", method, "jsonrpc")
    ELSE Res("Some", Response_error(f.id, to_jsonrpc_code(result.val)),
             result.val, method, "jsonrpc")

handle_notification_replying(f) ==
    LET method == CHOOSE m \in f.methods : TRUE
        result == route_method(method, f.outcome) IN
    IF result.ok
    THEN Res("None", NoResponse, "", method, "jsonrpc")
    ELSE Res("Some", Response_error(NoId, to_jsonrpc_code(result.val)),
             result.val, method, "jsonrpc")

handle_notification(f) ==
    LET method == CHOOSE m \in f.methods : TRUE
        result == route_method(method, f.outcome) IN
    IF result.ok
    THEN Res("None", NoResponse, "", method, "jsonrpc")
    ELSE Res("Err", NoResponse, result.val, method, "jsonrpc")

handle_text(f) ==
    IF ~f.json THEN Res("Err", NoResponse, "SerdeError", "", "parse")
    ELSE IF f.cr
    THEN \* serde: ClientRequestInner.id is a String
         IF f.id \notin StrIds
         THEN Res("Err", NoResponse, "SerdeError", "", "wrapped")
         ELSE handle_amp_request(f)
    ELSE IF f.jr
    THEN IF f.id # NoId
         THEN \* serde: Request.id is String or i64, method is required
              IF f.id \in BadIds \/ f.methods = {}
              THEN Res("Err", NoResponse, "SerdeError", "", "jsonrpc")
              ELSE handle_request(f)
         ELSE IF f.methods = {}
              THEN Res("Err", NoResponse, "SerdeError", "", "jsonrpc")
              ELSE handle_notification(f)
    ELSE Res("Err", NoResponse, "Other", "", "unknown")


\* ------------------------------------------------------------------------
\* util.rs and the upgrade request
\* ------------------------------------------------------------------------
\* tokens are byte strings over a two-letter alphabet
TokenLen == 2
Tokens == [1..TokenLen -> {0, 1}]
\* the token generate_token hands out
ServerTokens == {[i \in 1..TokenLen |-> 1]}
NoAuth == <<9>>
\* values an upgrade request can carry in its first `auth` query pair:
\* any token, one that is too short and one that is too long
AuthVals == Tokens \cup {<<1>>, [i \in 1..(TokenLen + 1) |-> 1]}

RECURSIVE DiffBits(_, _, _)
DiffBits(a, b, i) ==
    IF i > Len(a) THEN 0
    ELSE (IF a[i] = b[i] THEN 0 ELSE 1) + DiffBits(a, b, i + 1)

ct_eq(a, b) ==
    IF Len(a) # Len(b) THEN FALSE
    ELSE DiffBits(a, b, 1) = 0

\* the autocommand callbacks with a debounce cell of their own
SlotKinds == {"selection", "visible", "diagnostics"}
\* every cell holds None, no libuv timer runs, none was stopped, none has run
NoSlots == [cell |-> [k \in SlotKinds |-> <<>>], live |-> {}, next |-> 1,
            stopped |-> {}, ran |-> {}]

\* the threads that call schedule_on_main_thread
Producers == 1..MaxProducers
\* the work channel is empty, no wake-up is pending, the callback is not
\* running; sentLog, ran: the closures in the order of their tx.send and of
\* their execution; taken: closures run by the current callback run
NoWork == [chan |-> <<>>, pending |-> FALSE, draining |-> FALSE, taken |-> 0,
           prod |-> [p \in Producers |-> "idle"], next |-> 1,
           sentLog |-> <<>>, ran |-> <<>>, coalesced |-> FALSE,
           midDrain |-> FALSE]

\* the Hub mutex is free
Unlocked == [owner |-> "none", todo |-> {}, m |-> <<>>]

\* no stop() under way, the acceptor at the head of its loop
NoHalt == [stop |-> "idle", acc |-> "check"]

\* no comparison under way
NoCall == [phase |-> "idle", a |-> <<>>, b |-> <<>>, i |-> 1, x |-> 1,
           steps |-> 0, result |-> FALSE]

\* an upgrade request: does "ws://<authority><uri>" parse as a URL, and the
\* value of the first query pair named auth (NoAuth when there is none)
Requests ==
    { r \in [urlOk : BOOLEAN, auth : AuthVals \cup {NoAuth}] :
        ~r.urlOk => r.auth \in ServerTokens \cup {NoAuth} }

\* the accept_hdr callback: HTTP status of the handshake reply
AuthCallback_accept_any(r, expected_token) ==
    IF ~r.urlOk THEN 400
    ELSE IF r.auth # NoAuth THEN 101
    ELSE 401

AuthCallback(r, expected_token) ==
    IF ~r.urlOk THEN 400
    ELSE IF r.auth # NoAuth /\ ct_eq(r.auth, expected_token) THEN 101
    ELSE 401

\* ------------------------------------------------------------------------
\* State
\* ------------------------------------------------------------------------
VARIABLES
    server,        \* SERVER singleton: None or the live handle
    nvimReady,     \* NVIM_READY once-cell
    nextClientId,  \* NEXT_CLIENT_ID
    hub,           \* Hub.clients: the registered client ids (id -> its Sender)
    pc,            \* position of each connection thread
    status,        \* HTTP status the handshake answered with (0: none yet)
    queue,         \* contents of each client's outbound channel
    rxAlive,       \* whether the channel's Receiver still exists
    sent,          \* text frames written to each client's socket
    enq,           \* every message successfully enqueued for a client
    burst,         \* position of each send_initial_state thread
    workQueue,     \* closures queued by schedule_on_main_thread
    mainTask,      \* handlers the main thread has left in the running closure
    fired,         \* autocommands fired on the main thread
    nFrames,       \* inbound text frames handled so far
    last,          \* the latest inbound text frame and what came of it
    nExt,          \* broadcasts issued outside a burst so far
    lockfile,      \* ~/.local/share/amp/ide/<port>.json: absent or its content
    acceptors,     \* ports whose accept-loop thread is running
    lifeLog,       \* the start() and stop() calls made so far, with results
    hb,            \* each message loop's clock and heartbeat bookkeeping (ms)
    editor,        \* Neovim: window list, current window, cursor, diagnostics
    LAST_SELECTION,      \* thread-local caches of the three autocmd handlers
    LAST_VISIBLE_FILES,
    LAST_DIAGNOSTICS,
    handled,       \* the handler runs that read an editor state, in order
    debounce_timer,      \* the cursor autocommand's timer cell
    clock,         \* the editor's event-loop time (ms)
    evLog,         \* cursor events and selection-handler runs, with their times
    disk,          \* the file system: each file's content, if it exists
    buffers,       \* Neovim's loaded buffers: each file's lines, if it has one
    rt,            \* the last successful editFile and the readFile after it
    lastOut,       \* the clients whose unregister left the Hub empty
    cmp,           \* a call of ct_eq in progress: arguments, position, steps
    hubLock,       \* the Hub mutex as a broadcast holds it: owner, clients left
    slots,         \* the three debounce cells, the timers running, their fate
    sched,         \* the work channel, its AsyncHandle and the producers
    apiCalls,      \* the editor API functions called so far, with the thread
    wsClosed,      \* the connections whose WebSocket has exchanged close frames
    halt           \* where a stop() call and the acceptor thread stand

vars == <<server, nvimReady, nextClientId, hub, pc, status, queue, rxAlive,
          sent, enq, burst, workQueue, mainTask, fired, nFrames, last, nExt,
          lockfile, acceptors, lifeLog, hb, editor, LAST_SELECTION,
          LAST_VISIBLE_FILES, LAST_DIAGNOSTICS, handled, debounce_timer, clock,
          evLog, disk, buffers, rt, lastOut, cmp,
          hubLock, slots, sched, apiCalls, wsClosed, halt>>

\* ports the OS hands out for 127.0.0.1:0
Ports == {"p1", "p2"}
None == [token |-> <<>>, port |-> "none", shutdown |-> FALSE]
NoFile == [port |-> "none", authToken |-> <<>>]

\* server/connection.rs: heartbeat constants, in milliseconds
PING_INTERVAL == 30000
PONG_TIMEOUT == 60000
READ_TIMEOUT == 100
\* a loop as it starts: time is counted from Instant::now() at loop entry,
\* now is the Instant taken at the top of the iteration;
\* pinged: loop iterations since the last ping went out, up to the reply
\* window (at the window: no pong is on its way); pongs: pongs received;
\* exit: why the loop ended; missed: the reply window of some ping has closed
\* without its pong
LoopStart ==
    [now |-> 0, last_ping |-> 0, last_pong |-> 0, pinged |-> PongReplyIters,
     pongs |-> 0, exit |-> "running", missed |-> FALSE]
NoLast == [conn |-> 0]
\* the files the agent names, as absolute paths
Files == {<<1>>}
\* no editFile has succeeded, and none has returned, since the files or
\* buffers last changed
NoRoundTrip == [edit |-> <<>>, read |-> <<>>, call |-> "none"]
\* the debounce cell holding None, and no libuv timer running
NoTimer == [cell |-> <<>>, live |-> {}]

Init ==
    /\ server = None
    /\ nvimReady = FALSE
    /\ nextClientId = 1
    /\ hub = {}
    /\ pc = [c \in Conns |-> "Unborn"]
    /\ status = [c \in Conns |-> 0]
    /\ queue = [c \in Conns |-> <<>>]
    /\ rxAlive = [c \in Conns |-> FALSE]
    /\ sent = [c \in Conns |-> <<>>]
    /\ enq = [c \in Conns |-> <<>>]
    /\ burst = [c \in Conns |-> "none"]
    /\ workQueue = <<>>
    /\ mainTask = <<>>
    /\ fired = {}
    /\ nFrames = 0
    /\ last = NoLast
    /\ nExt = 0
    /\ lockfile = [p \in Ports |-> NoFile]
    /\ acceptors = {}
    /\ lifeLog = <<>>
    /\ hb = [c \in Conns |-> LoopStart]
    /\ editor = [wins |-> << <<>> >>, cur |-> 1, range |-> 0, diag |-> {}]
    /\ LAST_SELECTION = <<>>
    /\ LAST_VISIBLE_FILES = <<>>
    /\ LAST_DIAGNOSTICS = <<>>
    /\ handled = <<>>
    /\ debounce_timer = NoTimer
    /\ clock = 0
    /\ evLog = <<>>
    /\ disk = [f \in Files |-> <<>>]
    /\ buffers = [f \in Files |-> <<>>]
    /\ rt = NoRoundTrip
    /\ lastOut = {}
    /\ cmp = NoCall
    /\ hubLock = Unlocked
    /\ slots = NoSlots
    /\ sched = NoWork
    /\ apiCalls = {}
    /\ wsClosed = {}
    /\ halt = NoHalt

connVars == <<pc, status>>
chanVars == <<queue, rxAlive, enq>>
mainVars == <<workQueue, mainTask, fired>>
routerVars == <<nFrames, last>>
lifeVars == <<lockfile, acceptors, lifeLog>>
\* what the connection threads and the editor handlers leave alone
\* what neither they nor start() and stop() touch
cacheVars == <<LAST_SELECTION, LAST_VISIBLE_FILES, LAST_DIAGNOSTICS>>
timeVars == <<debounce_timer, clock, evLog, slots>>
autocmdVars == <<editor, cacheVars, handled, timeVars>>
fileVars == <<disk, buffers, rt, apiCalls>>
\* bookkeeping of the connection threads' ends
extraVars == <<lastOut, cmp, hubLock, sched, wsClosed, halt>>
quietVars == <<hb, autocmdVars, fileVars, extraVars>>
sideVars == <<lifeVars, quietVars>>

\* ------------------------------------------------------------------------
\* server/mod.rs start()
\* ------------------------------------------------------------------------
\* lockfile.rs write_lockfile: the content serialized into <port>.json
\* (pid, workspaceFolders and ideName are left out)
write_lockfile(port, token) == [port |-> port, authToken |-> token]

\* initOk: init_async_handle succeeds; ioOk: bind, port read and lockfile
\* write succeed; t: the token generate_token returns; p: the port bound
start_unchecked(srv, initOk, ioOk, t, p) ==
    IF ~initOk THEN Err("Other: Failed to create AsyncHandle")
    ELSE IF ~ioOk THEN Err("IoError")
    ELSE Ok([port |-> p, token |-> t, lockfile_path |-> p])

\* what start() returns
start(srv, initOk, ioOk, t, p) ==
    IF ~initOk THEN Err("Other: Failed to create AsyncHandle")
    ELSE IF srv # None THEN Err("Other: Server already running")
    ELSE IF ~ioOk THEN Err("IoError")
    ELSE Ok([port |-> p, token |-> t, lockfile_path |-> p])

\* (the AmpServerStarted autocommand it schedules is left out)
Start(initOk, ioOk, t, p) ==
    /\ nvimReady' = (nvimReady \/ initOk)
    /\ IF start(server, initOk, ioOk, t, p).ok
       THEN /\ lockfile' = [lockfile EXCEPT ![p] = write_lockfile(p, t)]
            /\ hub' = {}
            /\ acceptors' = acceptors \cup {p}
            /\ server' = [token |-> t, port |-> p, shutdown |-> FALSE]
       ELSE UNCHANGED <<server, hub, lockfile, acceptors>>
    /\ UNCHANGED <<nextClientId, connVars, chanVars, sent, burst, mainVars,
                   routerVars, nExt, quietVars>>

\* ServerHandle::stop: set the flag, join the acceptor, remove the lockfile
ServerHandle_stop_keep_file(handle, files) == files

ServerHandle_stop(handle, files) == [files EXCEPT ![handle.port] = NoFile]

\* Option::take on the singleton
take_keep(srv) == srv

take(srv) == None

\* stop(); the connection threads are not joined and stay in the old Hub
\* (the AmpServerStopped autocommand it schedules is left out)
Stop ==
    /\ server' = take(server)
    /\ IF server # None
       THEN /\ acceptors' = acceptors \ {server.port}
            \* handle.stop(), then again when the handle is dropped
            /\ lockfile' = ServerHandle_stop(server,
                                ServerHandle_stop(server, lockfile))
       ELSE UNCHANGED <<lockfile, acceptors>>
    /\ UNCHANGED <<nvimReady, nextClientId, hub, connVars, chanVars, sent,
                   burst, mainVars, routerVars, nExt, quietVars>>

\* the getters, which respect the shutdown flag (<<>>: Option::None)
is_running_unwrap_or_true(srv) == IF srv = None THEN TRUE ELSE ~srv.shutdown

is_running(srv) == IF srv = None THEN FALSE ELSE ~srv.shutdown
get_port(srv) == IF srv # None /\ ~srv.shutdown THEN <<srv.port>> ELSE <<>>
get_hub(srv, h) == IF srv # None /\ ~srv.shutdown THEN <<h>> ELSE <<>>

\* ------------------------------------------------------------------------
\* server/ws_server.rs run_accept_loop, server/connection.rs handle_connection
\* ------------------------------------------------------------------------
\* the acceptor hands a stream to a new thread, which takes its client id
HandleConnection(c) ==
    /\ server # None
    /\ c = nextClientId
    /\ pc[c] = "Unborn"
    /\ nextClientId' = nextClientId + 1
    /\ pc' = [pc EXCEPT ![c] = "Handshake"]
    /\ UNCHANGED <<sideVars, server, nvimReady, hub, status, chanVars, sent,
                   burst, mainVars, routerVars, nExt>>

\* the handshake completes on upgrade request r; on success the channel
\* (tx, rx) is created
AcceptWithAuth(c, r) ==
    /\ pc[c] = "Handshake"
    /\ LET st == AuthCallback(r, server.token) IN
       /\ status' = [status EXCEPT ![c] = st]
       /\ IF st = 101
          THEN /\ pc' = [pc EXCEPT ![c] = "Authenticated"]
               /\ rxAlive' = [rxAlive EXCEPT ![c] = TRUE]
          ELSE /\ pc' = [pc EXCEPT ![c] = "Closed"]
               /\ UNCHANGED rxAlive
    /\ UNCHANGED <<sideVars, server, nvimReady, nextClientId, hub, queue, enq, sent,
                   burst, mainVars, routerVars, nExt>>

\* server/hub.rs
register(h, id) == h \cup {id}
\* an unregister that removes nothing
unregister_keep(h, id) == h

unregister(h, id) == h \ {id}
client_count(h) == Cardinality(h)

Register(c) ==
    /\ pc[c] = "Authenticated"
    /\ hub' = register(hub, c)
    /\ pc' = [pc EXCEPT ![c] = "Registered"]
    /\ UNCHANGED <<sideVars, server, nvimReady, nextClientId, status, chanVars, sent,
                   burst, mainVars, routerVars, nExt>>

\* ide_ops schedule_on_main_thread
schedule_on_main_thread(q, work) == Append(q, work)

\* server/events.rs
notify_client_connected_unscheduled(q, c) == q

notify_client_connected(q, c) ==
    IF ~nvimReady THEN q
    ELSE schedule_on_main_thread(q, [op |-> "ClientConnected", c |-> c])

notify_client_disconnected(q, c) ==
    IF ~nvimReady THEN q
    ELSE schedule_on_main_thread(q, [op |-> "ClientDisconnected", c |-> c])

\* after register: connected autocommand, burst thread, then the loop
\* (the "Amp CLI: Connected" notice closure changes no state and is left out)
EnterOpen(c) ==
    /\ pc[c] = "Registered"
    /\ workQueue' = notify_client_connected(workQueue, c)
    /\ burst' = [burst EXCEPT ![c] = "sleep200"]
    /\ pc' = [pc EXCEPT ![c] = "Open"]
    /\ UNCHANGED <<sideVars, server, nvimReady, nextClientId, hub, status, chanVars,
                   sent, mainTask, fired, routerVars, nExt>>

\* ------------------------------------------------------------------------
\* server/hub.rs broadcast
\* ------------------------------------------------------------------------
StateKinds == {"visibleFilesDidChange", "selectionDidChange", "diagnosticsDidChange"}
ExtKinds == {"userSentMessage"}
BurstOrder == <<"visibleFilesDidChange", "selectionDidChange", "diagnosticsDidChange">>

\* a notification text: kind, the burst it belongs to (0: none) and, outside
\* a burst, the serial of the handler run that built it
Msg(kind, src, serial) == [kind |-> kind, src |-> src, serial |-> serial]

\* Sender::try_send on an unbounded channel: fails only when disconnected
try_send_ok(alive, c) == alive[c]

\* the for loop over clients.iter(), run with the mutex held; ch is the
\* state of the channels: q the contents, e the enqueue record
RECURSIVE broadcast_stop_on_error(_, _, _, _)
broadcast_stop_on_error(todo, alive, ch, m) ==
    IF todo = {} THEN ch
    ELSE LET c == CHOOSE x \in todo : \A y \in todo : x <= y IN
         IF try_send_ok(alive, c)
         THEN broadcast_stop_on_error(todo \ {c}, alive,
                  [q |-> [ch.q EXCEPT ![c] = Append(@, m)],
                   e |-> [ch.e EXCEPT ![c] = Append(@, m)]], m)
         ELSE ch

RECURSIVE broadcast_first_only(_, _, _, _)
broadcast_first_only(todo, alive, ch, m) ==
    IF todo = {} THEN ch
    ELSE LET c == CHOOSE x \in todo : \A y \in todo : x <= y IN
         IF try_send_ok(alive, c)
         THEN [q |-> [ch.q EXCEPT ![c] = Append(@, m)],
               e |-> [ch.e EXCEPT ![c] = Append(@, m)]]
         ELSE broadcast_first_only(todo \ {c}, alive, ch, m)

RECURSIVE broadcast(_, _, _, _)
broadcast(todo, alive, ch, m) ==
    IF todo = {} THEN ch
    ELSE LET c == CHOOSE x \in todo : TRUE IN
         IF try_send_ok(alive, c)
         THEN broadcast(todo \ {c}, alive,
                  [q |-> [ch.q EXCEPT ![c] = Append(@, m)],
                   e |-> [ch.e EXCEPT ![c] = Append(@, m)]], m)
         ELSE broadcast(todo \ {c}, alive, ch, m)

\* one call of Hub::broadcast with text m
Broadcast(m) ==
    LET ch == broadcast(hub, rxAlive, [q |-> queue, e |-> enq], m) IN
    /\ queue' = ch.q
    /\ enq' = ch.e

\* ------------------------------------------------------------------------
\* server/connection.rs send_initial_state (one thread per connection)
\* ------------------------------------------------------------------------
BurstCheckFirst(c) ==
    /\ burst[c] = "sleep200"
    /\ burst' = [burst EXCEPT ![c] =
                    IF client_count(hub) = 0 THEN "done" ELSE "metadata"]
    /\ UNCHANGED <<sideVars, server, nvimReady, nextClientId, hub, connVars, chanVars,
                   sent, mainVars, routerVars, nExt>>

BurstMetadata(c) ==
    /\ burst[c] = "metadata"
    /\ Broadcast(Msg("pluginMetadata", c, 0))
    /\ burst' = [burst EXCEPT ![c] = "sleep50"]
    /\ UNCHANGED <<sideVars, server, nvimReady, nextClientId, hub, connVars, rxAlive,
                   sent, mainVars, routerVars, nExt>>

BurstSchedule(c) ==
    /\ burst[c] = "sleep50"
    /\ burst' = [burst EXCEPT ![c] = "done"]
    /\ workQueue' =
          IF client_count(hub) = 0 \/ ~nvimReady THEN workQueue
          ELSE schedule_on_main_thread(workQueue, [op |-> "BurstState", c |-> c])
    /\ UNCHANGED <<sideVars, server, nvimReady, nextClientId, hub, connVars, chanVars,
                   sent, mainTask, fired, routerVars, nExt>>

\* ------------------------------------------------------------------------
\* the editor main thread
\* ------------------------------------------------------------------------
\* the work AsyncHandle callback takes the next closure and runs it
MainRun ==
    /\ mainTask = <<>>
    /\ workQueue # <<>>
    /\ LET w == Head(workQueue) IN
       /\ workQueue' = Tail(workQueue)
       /\ IF w.op = "BurstState"
          THEN /\ mainTask' = [i \in 1..Len(BurstOrder) |-> Msg(BurstOrder[i], w.c, 0)]
               /\ UNCHANGED fired
          ELSE /\ fired' = fired \cup {<<w.op, w.c>>}
               /\ UNCHANGED mainTask
    /\ UNCHANGED <<sideVars, server, nvimReady, nextClientId, hub, connVars, chanVars,
                   sent, burst, routerVars, nExt>>

\* one of the three handlers of the burst closure; changed: whether the
\* editor state it reads differs from the last broadcast one
MainHandler(changed) ==
    /\ mainTask # <<>>
    /\ mainTask' = Tail(mainTask)
    /\ IF changed
       THEN Broadcast(Head(mainTask))
       ELSE UNCHANGED <<queue, enq>>
    /\ UNCHANGED <<sideVars, server, nvimReady, nextClientId, hub, connVars, rxAlive,
                   sent, burst, workQueue, fired, routerVars, nExt>>

\* a handler run from an autocommand or a user command that broadcasts
EditorBroadcast(kind) ==
    /\ mainTask = <<>>
    /\ server # None
    /\ nExt < MaxBcast
    /\ nExt' = nExt + 1
    /\ Broadcast(Msg(kind, 0, nExt + 1))
    /\ UNCHANGED <<sideVars, server, nvimReady, nextClientId, hub, connVars, rxAlive,
                   sent, burst, mainVars, routerVars>>

\* ------------------------------------------------------------------------
\* server/connection.rs run_message_loop
\* ------------------------------------------------------------------------
\* Receiver::try_recv on a non-empty channel: the oldest message and the rest
try_recv_lifo(q) == [msg |-> q[Len(q)], rest |-> SubSeq(q, 1, Len(q) - 1)]

try_recv(q) == [msg |-> Head(q), rest |-> Tail(q)]

\* one loop iteration that finds an outbound message; sendOk: websocket.send
\* succeeds (on failure the loop returns and the message is gone)
LoopOutbound(c, sendOk) ==
    /\ pc[c] = "Open"
    /\ queue[c] # <<>>
    /\ IF sendOk
       THEN /\ sent' = [sent EXCEPT ![c] = Append(@, try_recv(queue[c]).msg)]
            /\ queue' = [queue EXCEPT ![c] = try_recv(queue[c]).rest]
            /\ UNCHANGED <<pc, rxAlive>>
       ELSE /\ pc' = [pc EXCEPT ![c] = "LoopDone"]
            /\ rxAlive' = [rxAlive EXCEPT ![c] = FALSE]
            /\ queue' = [queue EXCEPT ![c] = <<>>]
            /\ UNCHANGED sent
    /\ UNCHANGED <<sideVars, server, nvimReady, nextClientId, hub, status, enq, burst,
                   mainVars, routerVars, nExt>>

\* the heartbeat tests at the top of an iteration
ping_due(now, last_ping) == now - last_ping >= PING_INTERVAL
pong_expired_late(now, last_pong) == now - last_pong > PONG_TIMEOUT

pong_expired_early(now, last_pong) == now - last_pong >= PING_INTERVAL

pong_expired(now, last_pong) == now - last_pong >= PONG_TIMEOUT

\* how long websocket.read() blocks before a frame arrives
ReadDelays == {READ_TIMEOUT \div 2, READ_TIMEOUT}
ReadEvents == {"timeout", "pong", "other", "error"}

\* one iteration of the loop, with what websocket.read() returns after d ms:
\* nothing (the read timeout), a Pong, another frame (text, binary, ping)
\* or ConnectionClosed / an error; pingOk: the write of a due ping succeeds.
\* Writes and handlers take no time.
LoopIteration(c, ev, d, pingOk) ==
    /\ pc[c] = "Open"
    /\ LET h == hb[c]
           due == ping_due(h.now, h.last_ping)
           h1 == IF due THEN [h EXCEPT !.last_ping = h.now, !.pinged = 0] ELSE h
           ended(reason) ==
               /\ hb' = [hb EXCEPT ![c] = [h1 EXCEPT !.exit = reason]]
               /\ pc' = [pc EXCEPT ![c] = "LoopDone"]
               /\ rxAlive' = [rxAlive EXCEPT ![c] = FALSE]
               /\ queue' = [queue EXCEPT ![c] = <<>>]
           next(h2) ==
               /\ hb' = [hb EXCEPT ![c] =
                           [h2 EXCEPT !.now = h.now + d,
                                      !.pinged = IF h2.pinged < PongReplyIters
                                                 THEN h2.pinged + 1 ELSE h2.pinged,
                                      !.missed = @ \/ h2.pinged + 1 = PongReplyIters]]
               /\ UNCHANGED <<pc, rxAlive, queue>>
       IN
       IF due /\ ~pingOk THEN ev = "error" /\ d = READ_TIMEOUT /\ ended("ping failed")
       ELSE IF pong_expired(h.now, h.last_pong)
       THEN ev = "timeout" /\ d = READ_TIMEOUT /\ pingOk /\ ended("pong timeout")
       ELSE /\ pingOk
            /\ CASE ev = "timeout" -> d = READ_TIMEOUT /\ next(h1)
                 [] ev = "pong" ->
                        /\ h1.pinged < PongReplyIters
                        /\ h1.pongs < MaxPongs
                        /\ next([h1 EXCEPT !.last_pong = h.now + d,
                                            !.pongs = h1.pongs + 1,
                                            !.pinged = PongReplyIters])
                 [] ev = "other" -> next(h1)
                 [] ev = "error" -> d = READ_TIMEOUT /\ ended("closed")
    /\ UNCHANGED <<lifeVars, autocmdVars, fileVars, extraVars, server, nvimReady,
                   nextClientId, hub, status, enq,
                   sent, burst, mainVars, routerVars, nExt>>

\* the loop leaving after the first frame it handles
loop_after_handler_once(result) == "LoopDone"

\* `let _ = handle_message(..)`: the result is dropped and the loop goes on
loop_after_handler(result) == "Open"

\* handle_text_message: the router's Err is swallowed (`Err(_e) => {}`), and
\* the write of a response succeeds
handle_text_message(r) == Ok("unit")

\* handle_text_message: route the text, write the response if there is one
HandleTextMessage(c, f) ==
    /\ pc[c] = "Open"
    /\ nFrames < MaxFrames
    /\ nFrames' = nFrames + 1
    /\ LET r == handle_text(f)
           wrote == IF r.out = "Some" THEN <<r.resp>> ELSE <<>> IN
       /\ sent' = [sent EXCEPT ![c] = @ \o wrote]
       /\ last' = [conn |-> c, frame |-> f, res |-> r, wrote |-> wrote]
       /\ pc' = [pc EXCEPT ![c] = loop_after_handler(handle_text_message(r))]
    /\ UNCHANGED <<sideVars, server, nvimReady, nextClientId, hub, status, chanVars,
                   burst, mainVars, nExt>>

\* the loop ends: pong timeout, read error or closed socket
LoopExit(c) ==
    /\ pc[c] = "Open"
    /\ pc' = [pc EXCEPT ![c] = "LoopDone"]
    /\ rxAlive' = [rxAlive EXCEPT ![c] = FALSE]
    /\ queue' = [queue EXCEPT ![c] = <<>>]
    /\ UNCHANGED <<sideVars, server, nvimReady, nextClientId, hub, status, enq, sent,
                   burst, mainVars, routerVars, nExt>>

\* hub.unregister(client_id) after the loop has returned
UnregisterClient(c) ==
    /\ pc[c] = "LoopDone"
    /\ hub' = unregister(hub, c)
    /\ pc' = [pc EXCEPT ![c] = "Unregistered"]
    /\ UNCHANGED <<lifeVars, hb, autocmdVars, fileVars, cmp, hubLock, sched,
                   wsClosed, halt, server, nvimReady, nextClientId, status, chanVars, sent,
                   burst, mainVars, routerVars, nExt>>

Unregister(c) == UnregisterClient(c) /\ UNCHANGED lastOut

\* the same step, with a note of the clients whose unregister emptied the Hub
UnregisterNoted(c) ==
    /\ UnregisterClient(c)
    /\ lastOut' = IF client_count(hub) > 0 /\ client_count(hub') = 0
                  THEN lastOut \cup {c}
                  ELSE lastOut

DisconnectEvent(c) ==
    /\ pc[c] = "Unregistered"
    /\ pc' = [pc EXCEPT ![c] = "Closed"]
    /\ workQueue' = IF client_count(hub) = 0
                    THEN notify_client_disconnected(workQueue, c)
                    ELSE workQueue
    /\ UNCHANGED <<sideVars, server, nvimReady, nextClientId, hub, status, chanVars,
                   sent, burst, mainTask, fired, routerVars, nExt>>

\* ------------------------------------------------------------------------
\* autocmds/: selection_changed.rs, visible_files_changed.rs,
\* diagnostics_changed.rs
\* ------------------------------------------------------------------------
DEBOUNCE_MS == 10

\* buffer names as character strings: the unnamed buffer and two files
Bufs == {<<>>, <<1>>, <<2>>}
WinLists == UNION {[1..n -> Bufs] : n \in 1..MaxWins}
Ranges == 0..1
DiagBufs == {<<1>>}
EditorStates ==
    {e \in [wins : WinLists, cur : 1..MaxWins, range : Ranges,
            diag : SUBSET DiagBufs] : e.cur <= Len(e.wins)}

\* Path::is_absolute: the unnamed buffer has the empty name
is_absolute(path) == path # <<>>
\* nvim/path.rs to_uri: the scheme (character 0) in front of the path
to_uri(path) == <<0>> \o path

\* String's Ord: lexicographic on the characters
RECURSIVE str_le(_, _)
str_le(a, b) ==
    IF a = <<>> THEN TRUE
    ELSE IF b = <<>> THEN FALSE
    ELSE IF a[1] # b[1] THEN a[1] < b[1]
    ELSE str_le(Tail(a), Tail(b))

RECURSIVE sort_insert(_, _)
sort_insert(x, s) ==
    IF s = <<>> THEN <<x>>
    ELSE IF str_le(x, s[1]) THEN <<x>> \o s
    ELSE <<s[1]>> \o sort_insert(x, Tail(s))

\* Vec::sort left out
sort_unsorted(v) == v

RECURSIVE sort(_)
sort(v) == IF v = <<>> THEN <<>> ELSE sort_insert(v[1], sort(Tail(v)))

\* nvim/window.rs get_visible_buffers: absolute names, first occurrence only
\* (every named buffer's file exists)
RECURSIVE get_visible_buffers(_, _)
get_visible_buffers(windows, seen) ==
    IF windows = <<>> THEN <<>>
    ELSE LET path == Head(windows) IN
         IF is_absolute(path) /\ path \notin seen
         THEN <<path>> \o get_visible_buffers(Tail(windows), seen \cup {path})
         ELSE get_visible_buffers(Tail(windows), seen)

\* collect_all_diagnostics: URI -> diagnostics of the buffers that have any
collect_all_diagnostics(ed) ==
    [u \in {to_uri(p) : p \in {b \in ed.diag : is_absolute(b)}} |-> <<"diagnostic">>]

ServerNotification(method, params) == [method |-> method, params |-> params]

\* what a handler run comes to: its result, the cache afterwards, the editor
\* reading it compared (none when it returned before reading one), the
\* notification handed to Hub::broadcast (none when it sent nothing)
Returned(res, cache) == [res |-> res, cache |-> cache, seen |-> <<>>, sent |-> <<>>]
Compared(cache, reading, note) ==
    [res |-> "Ok", cache |-> cache, seen |-> <<reading>>, sent |-> note]

\* the comparison with the cache answering "changed" every time
state_changed_always(cached, current_state) == TRUE

\* last.as_ref() != Some(&current_state)
state_changed(cached, current_state) == cached # <<current_state>>

\* selection_changed.rs handle_event; readOk: get_name, get_mode and the
\* cursor position are read without error
selection_handle_event(nvim, readOk, ed, cached) ==
    IF ~nvim THEN Returned("Ok", cached)
    ELSE IF ~readOk THEN Returned("Err", cached)
    ELSE LET buf_path == ed.wins[ed.cur] IN
         IF ~is_absolute(buf_path) THEN Returned("Ok", cached)
         ELSE LET current_state == [uri |-> to_uri(buf_path), range |-> ed.range]
                  should_broadcast == state_changed(cached, current_state)
              IN  Compared(IF should_broadcast THEN <<current_state>> ELSE cached,
                           [path |-> buf_path, range |-> ed.range],
                           IF should_broadcast
                           THEN <<ServerNotification("selectionDidChange",
                                                     current_state)>>
                           ELSE <<>>)

\* visible_files_changed.rs handle_event
visible_files_handle_event(nvim, readOk, ed, cached) ==
    IF ~nvim THEN Returned("Ok", cached)
    ELSE IF ~readOk THEN Returned("Err", cached)
    ELSE LET paths == get_visible_buffers(ed.wins, {})
             uris == sort([i \in 1..Len(paths) |-> to_uri(paths[i])])
             should_broadcast ==
                 IF cached # <<>>
                 THEN IF Len(cached[1]) # Len(uris) THEN TRUE ELSE cached[1] # uris
                 ELSE TRUE
         IN  Compared(IF should_broadcast THEN <<uris>> ELSE cached,
                      paths,
                      IF should_broadcast
                      THEN <<ServerNotification("visibleFilesDidChange",
                                                [uris |-> uris])>>
                      ELSE <<>>)

\* diagnostics_changed.rs handle_event; the entries go out in the HashMap's
\* iteration order, which is not specified: they are kept as a set
diagnostics_handle_event(nvim, readOk, ed, cached) ==
    IF ~nvim THEN Returned("Ok", cached)
    ELSE IF ~readOk THEN Returned("Err", cached)
    ELSE LET diagnostics_map == collect_all_diagnostics(ed)
             should_broadcast == state_changed(cached, diagnostics_map)
             entries == {[uri |-> u, diagnostics |-> diagnostics_map[u]] :
                             u \in DOMAIN diagnostics_map}
         IN  Compared(IF should_broadcast THEN <<diagnostics_map>> ELSE cached,
                      ed.diag,
                      IF should_broadcast
                      THEN <<ServerNotification("diagnosticsDidChange",
                                                [entries |-> entries])>>
                      ELSE <<>>)

\* what no handler run touches (the timer cell, the clock and the timeline
\* are left to the caller)
handlerFrame ==
    <<server, nvimReady, nextClientId, hub, connVars, rxAlive, sent, burst,
      mainVars, routerVars, nExt, lifeVars, hb, fileVars, extraVars, editor>>

\* the effect of one run r of the handler of the given kind
HandlerRun(kind, r) ==
    /\ handled' = IF r.seen # <<>>
                  THEN Append(handled, [kind |-> kind, seen |-> r.seen[1],
                                        sent |-> r.sent])
                  ELSE handled
    /\ IF r.sent # <<>> THEN Broadcast(r.sent[1]) ELSE UNCHANGED <<queue, enq>>
    /\ UNCHANGED handlerFrame

HandleSelection(readOk) ==
    LET r == selection_handle_event(nvimReady, readOk, editor, LAST_SELECTION) IN
    /\ LAST_SELECTION' = r.cache
    /\ HandlerRun("selection", r)
    /\ UNCHANGED <<LAST_VISIBLE_FILES, LAST_DIAGNOSTICS>>

HandleVisibleFiles(readOk) ==
    LET r == visible_files_handle_event(nvimReady, readOk, editor,
                                        LAST_VISIBLE_FILES) IN
    /\ LAST_VISIBLE_FILES' = r.cache
    /\ HandlerRun("visible", r)
    /\ UNCHANGED <<LAST_SELECTION, LAST_DIAGNOSTICS>>

HandleDiagnostics(readOk) ==
    LET r == diagnostics_handle_event(nvimReady, readOk, editor,
                                      LAST_DIAGNOSTICS) IN
    /\ LAST_DIAGNOSTICS' = r.cache
    /\ HandlerRun("diagnostics", r)
    /\ UNCHANGED <<LAST_SELECTION, LAST_VISIBLE_FILES>>

\* notifications.rs send_*: `serde_json::to_string(&notification)...?` comes
\* after the handler has updated its cell; sendOk: the serialization
\* succeeds. On failure nothing reaches Hub::broadcast and the handler
\* returns the error.
send_outcome(r, sendOk) ==
    IF r.sent # <<>> /\ ~sendOk THEN [r EXCEPT !.res = "Err", !.sent = <<>>]
    ELSE r

\* one run of a kind's handle_event, the send included
HandleSend(kind, readOk, sendOk) ==
    LET r == send_outcome(
                 CASE kind = "selection" ->
                        selection_handle_event(nvimReady, readOk, editor,
                                               LAST_SELECTION)
                   [] kind = "visible" ->
                        visible_files_handle_event(nvimReady, readOk, editor,
                                                   LAST_VISIBLE_FILES)
                   [] kind = "diagnostics" ->
                        diagnostics_handle_event(nvimReady, readOk, editor,
                                                 LAST_DIAGNOSTICS),
                 sendOk)
    IN
    /\ LAST_SELECTION' = IF kind = "selection" THEN r.cache ELSE LAST_SELECTION
    /\ LAST_VISIBLE_FILES' = IF kind = "visible" THEN r.cache
                             ELSE LAST_VISIBLE_FILES
    /\ LAST_DIAGNOSTICS' = IF kind = "diagnostics" THEN r.cache
                           ELSE LAST_DIAGNOSTICS
    /\ HandlerRun(kind, r)

\* the user or a plugin changes what the editor shows: the windows, the
\* cursor, or a buffer's diagnostics
EditorChange(e) ==
    /\ e # editor
    /\ \/ e.range = editor.range /\ e.diag = editor.diag
       \/ e.wins = editor.wins /\ e.cur = editor.cur /\ e.diag = editor.diag
       \/ e.wins = editor.wins /\ e.cur = editor.cur /\ e.range = editor.range
    /\ editor' = e
    /\ UNCHANGED <<server, nvimReady, nextClientId, hub, connVars, chanVars, sent,
                   burst, mainVars, routerVars, nExt, lifeVars, hb, fileVars, extraVars, cacheVars,
                   handled, timeVars>>

\* selection_changed.rs register: the debounce of the cursor autocommand
\* TimerHandle::stop left out
TimerHandle_stop_noop(live, cell) == live

TimerHandle_stop(live, cell) == IF cell # <<>> THEN live \ {cell[1]} ELSE live

TimerHandle_once(now, ms) == now + ms

\* a timeline entry: a cursor event (armed: its timer was created) or a
\* handler run (what came of it)
Event(ev, t, armed, outcome) ==
    [ev |-> ev, t |-> t, armed |-> armed, outcome |-> outcome]
Outcome(r, nvim) ==
    IF r.sent # <<>> THEN "sent"
    ELSE IF r.res = "Err" THEN "error"
    ELSE IF r.seen # <<>> THEN "unchanged"
    ELSE IF ~nvim THEN "not ready"
    ELSE "unnamed"

\* the callback of CursorMoved, CursorMovedI, BufEnter, WinEnter; timerOk:
\* TimerHandle::once succeeds
CursorMoved(timerOk) ==
    LET stopped == TimerHandle_stop(debounce_timer.live, debounce_timer.cell)
        due == TimerHandle_once(clock, DEBOUNCE_MS)
    IN
    /\ debounce_timer' = IF timerOk
                         THEN [cell |-> <<due>>, live |-> stopped \cup {due}]
                         ELSE [cell |-> <<>>, live |-> stopped]
    /\ evLog' = Append(evLog, Event("cursor", clock, timerOk, "none"))
    /\ UNCHANGED <<server, nvimReady, nextClientId, hub, connVars, chanVars, sent,
                   burst, mainVars, routerVars, nExt, lifeVars, hb, fileVars, extraVars, editor,
                   cacheVars, handled, clock, slots>>

\* a running timer comes due: its callback runs handle_event, whose error
\* is dropped
TimerFire(readOk) ==
    /\ \E due \in debounce_timer.live :
          /\ due <= clock
          /\ debounce_timer' = [debounce_timer EXCEPT !.live = @ \ {due}]
    /\ HandleSelection(readOk)
    /\ evLog' = Append(evLog, Event("run", clock, FALSE,
           Outcome(selection_handle_event(nvimReady, readOk, editor,
                                          LAST_SELECTION), nvimReady)))
    /\ UNCHANGED <<clock, slots>>

\* a ModeChanged callback that goes through the debounce timer
ModeChanged_debounced(readOk) ==
    LET rest == TimerHandle_stop(debounce_timer.live, debounce_timer.cell)
        due == TimerHandle_once(clock, DEBOUNCE_MS)
    IN
    /\ debounce_timer' = [cell |-> <<due>>, live |-> rest \cup {due}]
    /\ evLog' = Append(evLog, Event("mode", clock, TRUE, "none"))
    /\ UNCHANGED <<server, nvimReady, nextClientId, hub, connVars, chanVars, sent,
                   burst, mainVars, routerVars, nExt, lifeVars, hb, fileVars, extraVars, editor,
                   cacheVars, handled, clock, slots>>

\* the callback of ModeChanged: handle_event at once
ModeChanged(readOk) ==
    /\ HandleSelection(readOk)
    /\ evLog' = Append(evLog, Event("mode", clock, FALSE,
           Outcome(selection_handle_event(nvimReady, readOk, editor,
                                          LAST_SELECTION), nvimReady)))
    /\ UNCHANGED <<debounce_timer, clock, slots>>

\* time passes in the event loop, up to the next running timer's due time
Tick(d) ==
    /\ clock + d <= MaxDelays * DEBOUNCE_MS
    /\ \A due \in debounce_timer.live : clock + d <= due
    /\ clock' = clock + d
    /\ UNCHANGED <<server, nvimReady, nextClientId, hub, connVars, chanVars, sent,
                   burst, mainVars, routerVars, nExt, lifeVars, hb, fileVars, extraVars, editor,
                   cacheVars, handled, debounce_timer, evLog, slots>>

\* ------------------------------------------------------------------------
\* the debounce cells of the three register functions
\* ------------------------------------------------------------------------
slotFrame ==
    <<server, nvimReady, nextClientId, hub, connVars, chanVars, sent, burst,
      mainVars, routerVars, nExt, lifeVars, hb, fileVars, extraVars, editor,
      cacheVars, handled, debounce_timer, evLog>>

\* a take() whose timer is dropped without stop()
take_and_stop_noop(live, cell) == live

\* `if let Some(mut timer) = debounce_timer.borrow_mut().take() { timer.stop() }`
take_and_stop(live, cell) == {t \in live : <<t.id>> # cell}

\* the debounced callback of kind k; timerOk: TimerHandle::once succeeds
SlotEvent(k, timerOk) ==
    /\ slots.next <= MaxTimers
    /\ LET cell == slots.cell[k]
           t == [id |-> slots.next, slot |-> k,
                 due |-> TimerHandle_once(clock, DEBOUNCE_MS)]
           rest == take_and_stop(slots.live, cell)
       IN slots' = [cell |-> [slots.cell EXCEPT ![k] = IF timerOk THEN <<t.id>>
                                                        ELSE <<>>],
                    live |-> IF timerOk THEN rest \cup {t} ELSE rest,
                    next |-> slots.next + 1,
                    stopped |-> slots.stopped \cup {cell[i] : i \in 1..Len(cell)},
                    ran |-> slots.ran]
    /\ UNCHANGED <<slotFrame, clock>>

\* a running timer comes due and its callback runs its kind's handle_event
SlotFire(k, readOk) ==
    /\ \E t \in slots.live :
          /\ t.slot = k
          /\ t.due <= clock
          /\ slots' = [slots EXCEPT !.live = @ \ {t}, !.ran = @ \cup {t.id}]
    /\ CASE k = "selection" -> HandleSelection(readOk)
         [] k = "visible" -> HandleVisibleFiles(readOk)
         [] k = "diagnostics" -> HandleDiagnostics(readOk)
    /\ UNCHANGED <<debounce_timer, clock, evLog>>

\* time passes in the event loop, up to the next running timer's due time
SlotTick(d) ==
    /\ clock + d <= MaxDelays * DEBOUNCE_MS
    /\ \A t \in slots.live : clock + d <= t.due
    /\ clock' = clock + d
    /\ UNCHANGED <<slotFrame, slots>>

\* ------------------------------------------------------------------------
\* ide_ops/edit_file.rs, ide_ops/read_file.rs
\* ------------------------------------------------------------------------
\* the newline character; the other character of the alphabet is 1
NL == 0
Chars == {NL, 1}
Contents == UNION {[1..n -> Chars] : n \in 0..MaxContent}

\* str::split('\n'): the pieces between newlines, at least one
RECURSIVE split(_)
split(content) ==
    IF content = <<>> THEN << <<>> >>
    ELSE IF content[1] = NL THEN << <<>> >> \o split(Tail(content))
    ELSE LET rest == split(Tail(content)) IN
         << <<content[1]>> \o rest[1] >> \o Tail(rest)

\* the lines put together with nothing between them
RECURSIVE join_concat(_)
join_concat(lines) ==
    IF lines = <<>> THEN <<>> ELSE lines[1] \o join_concat(Tail(lines))

\* [String]::join("\n")
RECURSIVE join(_)
join(lines) ==
    IF lines = <<>> THEN <<>>
    ELSE IF Len(lines) = 1 THEN lines[1]
    ELSE lines[1] \o <<NL>> \o join(Tail(lines))

\* what a loaded buffer can hold: one line or more, no newline inside a line
BufferLines == {split(c) : c \in Contents}

\* nvim/buffer.rs find_by_path: the loaded buffer of that name, if any
find_buffer_by_path(bufs, path) == bufs[path]

\* edit_file: its result and what it leaves in the buffer and on disk;
\* dirOk: the parent directory exists or is created, setOk: set_lines and
\* set_option succeed, writeOk: fs::write succeeds
edit_file(nvim, bufs, files, path, content, dirOk, setOk, writeOk) ==
    LET lines == split(content)
        buf == find_buffer_by_path(bufs, path)
        updated == IF nvim /\ buf # <<>>
                   THEN [bufs EXCEPT ![path] = <<lines>>]
                   ELSE bufs
    IN  IF ~dirOk THEN [res |-> Err("IoError"), bufs |-> bufs, files |-> files]
        ELSE IF nvim /\ buf # <<>> /\ ~setOk
        THEN [res |-> Err("Other"), bufs |-> bufs, files |-> files]
        ELSE IF ~writeOk
        THEN [res |-> Err("IoError"), bufs |-> updated, files |-> files]
        ELSE [res |-> Ok([success |-> TRUE, appliedChanges |-> TRUE]),
              bufs |-> updated,
              files |-> [files EXCEPT ![path] = <<content>>]]

\* read_file; readOk: fs::read_to_string succeeds on an existing file
read_file(nvim, bufs, files, path, readOk) ==
    LET buf == find_buffer_by_path(bufs, path) IN
    IF nvim /\ buf # <<>>
    THEN Ok([success |-> TRUE, content |-> join(buf[1]), encoding |-> "utf-8"])
    ELSE IF files[path] = <<>> \/ ~readOk THEN Err("IoError")
    ELSE Ok([success |-> TRUE, content |-> files[path][1], encoding |-> "utf-8"])

\* the editor API functions read_file calls: nvim::buffer::find_by_path
\* (list_bufs, is_loaded, get_name), then line_count and get_lines
read_file_calls(nvim, bufs, path) ==
    IF ~nvim THEN {}
    ELSE {"list_bufs"} \cup (IF find_buffer_by_path(bufs, path) # <<>>
                             THEN {"is_loaded", "get_name", "line_count", "get_lines"}
                             ELSE {})

\* the editor API functions edit_file calls once the directory is there
edit_file_calls(nvim, bufs, path, dirOk) ==
    IF ~nvim \/ ~dirOk THEN {}
    ELSE {"list_bufs"} \cup (IF find_buffer_by_path(bufs, path) # <<>>
                             THEN {"is_loaded", "get_name", "line_count", "set_lines"}
                             ELSE {})

\* route_method calls the handler on the thread that read the frame: the
\* connection's thread
Called(thread, names) == {[thread |-> thread, api |-> a] : a \in names}

fileFrame ==
    <<server, nvimReady, nextClientId, hub, connVars, chanVars, sent, burst,
      mainVars, routerVars, nExt, lifeVars, hb, autocmdVars, extraVars>>

\* an editFile request handled on a connection of the running server
EditFile(path, content, dirOk, setOk, writeOk) ==
    LET r == edit_file(nvimReady, buffers, disk, path, content, dirOk, setOk,
                       writeOk) IN
    /\ server # None
    /\ buffers' = r.bufs
    /\ disk' = r.files
    \* call: how the latest editFile ended, and whether a call that failed
    \* left the buffer or the file changed
    /\ LET call == IF r.res.ok THEN "ok"
                   ELSE IF r.bufs # buffers \/ r.files # disk THEN "failed, changed"
                   ELSE "failed"
       IN rt' = IF r.res.ok
                THEN [edit |-> <<[path |-> path, content |-> content]>>,
                      read |-> <<>>, call |-> call]
                ELSE IF r.bufs # buffers THEN [NoRoundTrip EXCEPT !.call = call]
                ELSE [rt EXCEPT !.call = call]
    /\ apiCalls' = apiCalls \cup
           Called("connection", edit_file_calls(nvimReady, buffers, path, dirOk))
    /\ UNCHANGED fileFrame

\* a readFile request
ReadFile(path, readOk) ==
    /\ server # None
    /\ rt' = [rt EXCEPT !.read = <<[path |-> path, readOk |-> readOk,
                  res |-> read_file(nvimReady, buffers, disk, path, readOk)]>>]
    /\ apiCalls' = apiCalls \cup
           Called("connection", read_file_calls(nvimReady, buffers, path))
    /\ UNCHANGED <<fileFrame, disk, buffers>>

\* the user opens the file, edits its buffer, or closes it
BufferChange(path, b) ==
    /\ b # buffers[path]
    /\ buffers' = [buffers EXCEPT ![path] = b]
    /\ rt' = NoRoundTrip
    /\ UNCHANGED <<fileFrame, disk, apiCalls>>

\* another program writes the file or removes it
DiskChange(path, f) ==
    /\ f # disk[path]
    /\ disk' = [disk EXCEPT ![path] = f]
    /\ rt' = NoRoundTrip
    /\ UNCHANGED <<fileFrame, buffers, apiCalls>>

\* ------------------------------------------------------------------------
\* util.rs ct_eq, one step at a time
\* ------------------------------------------------------------------------
compareFrame ==
    <<server, nvimReady, nextClientId, hub, connVars, chanVars, sent, burst,
      mainVars, routerVars, nExt, lifeVars, hb, autocmdVars, fileVars, lastOut,
      hubLock, sched, wsClosed, halt>>

\* ct_eq is called with two strings (the auth value and the token, or a test's)
CtEqCall(a, b) ==
    /\ cmp.phase = "idle"
    /\ cmp' = [NoCall EXCEPT !.phase = "len", !.a = a, !.b = b]
    /\ UNCHANGED compareFrame

\* a.len() != b.len(): return false, else go on to the bytes
CtEqLen ==
    /\ cmp.phase = "len"
    /\ cmp' = IF Len(cmp.a) # Len(cmp.b)
              THEN [cmp EXCEPT !.phase = "done", !.result = FALSE]
              ELSE [cmp EXCEPT !.phase = "bytes"]
    /\ UNCHANGED compareFrame

\* a byte loop that leaves at the first difference
ct_more_until_diff(x, i, n) == i <= n /\ x = 1

\* the byte loop of ConstantTimeEq for slices goes over every position
ct_more(x, i, n) == i <= n

\* one byte pair is compared and folded into the accumulator
CtEqByte ==
    /\ cmp.phase = "bytes"
    /\ ct_more(cmp.x, cmp.i, Len(cmp.a))
    /\ cmp' = [cmp EXCEPT !.x = IF cmp.a[cmp.i] = cmp.b[cmp.i] THEN @ ELSE 0,
                          !.i = @ + 1,
                          !.steps = @ + 1]
    /\ UNCHANGED compareFrame

\* the accumulator becomes the bool
CtEqReturn ==
    /\ cmp.phase = "bytes"
    /\ ~ct_more(cmp.x, cmp.i, Len(cmp.a))
    /\ cmp' = [cmp EXCEPT !.phase = "done", !.result = (cmp.x = 1)]
    /\ UNCHANGED compareFrame

\* the caller takes the result
CtEqDone ==
    /\ cmp.phase = "done"
    /\ cmp' = NoCall
    /\ UNCHANGED compareFrame

\* ------------------------------------------------------------------------
\* server/hub.rs: the mutex around the client map
\* ------------------------------------------------------------------------
lockFrame ==
    <<server, nvimReady, nextClientId, connVars, sent, burst, mainVars,
      routerVars, lifeVars, hb, autocmdVars, fileVars, lastOut, cmp, sched,
      wsClosed, halt>>

\* broadcast: `let clients = self.clients.lock().unwrap()`; the loop is
\* over clients.iter(), the map itself
BroadcastLock(kind) ==
    /\ hubLock.owner = "none"
    /\ nExt < MaxBcast
    /\ nExt' = nExt + 1
    /\ hubLock' = [owner |-> "broadcast", todo |-> hub, m |-> Msg(kind, 0, nExt + 1)]
    /\ UNCHANGED <<lockFrame, hub, chanVars>>

\* one turn of the for loop: sender.try_send for one client, result dropped
BroadcastSend(c) ==
    /\ hubLock.owner = "broadcast"
    /\ c \in hubLock.todo
    /\ hubLock' = [hubLock EXCEPT !.todo = @ \ {c}]
    /\ LET ch == broadcast({c}, rxAlive, [q |-> queue, e |-> enq], hubLock.m) IN
       /\ queue' = ch.q
       /\ enq' = ch.e
    /\ UNCHANGED <<lockFrame, hub, rxAlive, nExt>>

\* the function returns and the guard is dropped
BroadcastUnlock ==
    /\ hubLock.owner = "broadcast"
    /\ hubLock.todo = {}
    /\ hubLock' = Unlocked
    /\ UNCHANGED <<lockFrame, hub, chanVars, nExt>>

\* register and unregister take the same mutex
LockedRegister(c) == hubLock.owner = "none" /\ Register(c)
LockedUnregister(c) == hubLock.owner = "none" /\ Unregister(c)

\* ------------------------------------------------------------------------
\* ide_ops/mod.rs: the work channel and its AsyncHandle
\* ------------------------------------------------------------------------
schedFrame ==
    <<server, nvimReady, nextClientId, hub, connVars, chanVars, sent, burst,
      mainVars, routerVars, nExt, lifeVars, hb, autocmdVars, fileVars, lastOut,
      cmp, hubLock, wsClosed, halt>>

\* schedule_on_main_thread, first half: tx.send(Box::new(work)) on thread p
ScheduleSend(p) ==
    /\ nvimReady
    /\ sched.prod[p] = "idle"
    /\ sched.next <= MaxWork
    /\ sched' = [sched EXCEPT !.chan = Append(@, sched.next),
                              !.sentLog = Append(@, sched.next),
                              !.next = @ + 1,
                              !.prod[p] = "wake",
                              !.midDrain = @ \/ sched.draining]
    /\ UNCHANGED schedFrame

\* second half: handle.send(); uv_async_send sets the handle pending, once
\* however often it is called before the callback runs
ScheduleWake(p) ==
    /\ sched.prod[p] = "wake"
    /\ sched' = [sched EXCEPT !.pending = TRUE,
                              !.prod[p] = "idle",
                              !.coalesced = @ \/ sched.pending]
    /\ UNCHANGED schedFrame

\* the event loop clears the pending flag and calls the callback
CallbackBegin ==
    /\ sched.pending
    /\ ~sched.draining
    /\ sched' = [sched EXCEPT !.pending = FALSE, !.draining = TRUE, !.taken = 0]
    /\ UNCHANGED schedFrame

\* a callback that takes one closure per wake-up (`if let`)
drain_more_once(q, n) == q # <<>> /\ n = 0

\* `while let Ok(work) = work_rx.try_recv()`
drain_more(q, n) == q # <<>>

\* work_rx.try_recv() returns a closure and work() runs it
CallbackTake ==
    /\ sched.draining
    /\ drain_more(sched.chan, sched.taken)
    /\ sched' = [sched EXCEPT !.chan = try_recv(sched.chan).rest,
                              !.ran = Append(@, try_recv(sched.chan).msg),
                              !.taken = @ + 1]
    /\ UNCHANGED schedFrame

\* try_recv finds nothing (more): the callback returns
CallbackEnd ==
    /\ sched.draining
    /\ ~drain_more(sched.chan, sched.taken)
    /\ sched' = [sched EXCEPT !.draining = FALSE]
    /\ UNCHANGED schedFrame

\* ------------------------------------------------------------------------
\* server/connection.rs: a close frame in the message loop
\* ------------------------------------------------------------------------
closeFrame ==
    <<server, nvimReady, nextClientId, hub, status, enq, burst, mainVars,
      routerVars, nExt, lifeVars, hb, autocmdVars, fileVars, lastOut, cmp,
      hubLock, sched, halt>>

CloseEcho == "close"

\* an iteration whose websocket.read() returns the peer's close frame:
\* handle_message echoes it and returns Err(ConnectionClosed)
ReadCloseFrame(c) ==
    /\ pc[c] = "Open"
    /\ c \notin wsClosed
    /\ wsClosed' = wsClosed \cup {c}
    /\ sent' = [sent EXCEPT ![c] = Append(@, CloseEcho)]
    /\ pc' = [pc EXCEPT ![c] = loop_after_handler(Err("ConnectionClosed"))]
    /\ rxAlive' = [rxAlive EXCEPT ![c] = (pc'[c] = "Open")]
    /\ UNCHANGED <<closeFrame, queue>>

\* the iteration after it: a pending outbound message is taken and its
\* write fails, or the read reports the closed connection; the loop
\* returns either way
IterationAfterClose(c) ==
    /\ pc[c] = "Open"
    /\ c \in wsClosed
    /\ pc' = [pc EXCEPT ![c] = "LoopDone"]
    /\ rxAlive' = [rxAlive EXCEPT ![c] = FALSE]
    /\ queue' = [queue EXCEPT ![c] = <<>>]
    /\ UNCHANGED <<closeFrame, sent, wsClosed>>

\* an iteration of a connection that has seen no close frame and finds an
\* outbound message
OutboundBeforeClose(c, sendOk) == c \notin wsClosed /\ LoopOutbound(c, sendOk)

\* ------------------------------------------------------------------------
\* server/mod.rs, server/ws_server.rs: stop() and the accept loop, by steps
\* ------------------------------------------------------------------------
haltFrame ==
    <<nvimReady, hub, status, chanVars, sent, burst, mainVars, routerVars, nExt,
      hb, autocmdVars, fileVars, lastOut, cmp, hubLock, sched, wsClosed>>

accept_loop_forever(flag) == TRUE

\* `while !shutdown.load(Ordering::Relaxed)`
accept_loop_continues(flag) == ~flag

Logged(op) == Append(lifeLog, [op |-> op, res |-> Ok("unit")])

\* the acceptor thread tests its loop condition
AcceptorCheck ==
    /\ server # None
    /\ server.port \in acceptors
    /\ halt.acc = "check"
    /\ halt' = [halt EXCEPT !.acc = IF accept_loop_continues(server.shutdown)
                                     THEN "accept" ELSE "done"]
    /\ UNCHANGED <<haltFrame, server, nextClientId, pc, lifeVars>>

\* listener.accept() on the non-blocking listener: a stream, which gets a
\* connection thread, or WouldBlock / an error and a sleep
AcceptorAccept(stream) ==
    /\ halt.acc = "accept"
    /\ halt' = [halt EXCEPT !.acc = "check"]
    /\ IF stream
       THEN /\ nextClientId \in Conns
            /\ pc[nextClientId] = "Unborn"
            /\ pc' = [pc EXCEPT ![nextClientId] = "Handshake"]
            /\ nextClientId' = nextClientId + 1
       ELSE UNCHANGED <<pc, nextClientId>>
    /\ UNCHANGED <<haltFrame, server, lifeVars>>

\* stop(): SERVER is locked and the handle taken; ServerHandle::stop stores
\* the flag (the singleton is seen by no other thread until stop() returns)
StopSetFlag ==
    /\ server # None
    /\ halt.stop = "idle"
    /\ server' = [server EXCEPT !.shutdown = TRUE]
    /\ halt' = [halt EXCEPT !.stop = "flagged"]
    /\ lifeLog' = Logged("flag")
    /\ UNCHANGED <<haltFrame, nextClientId, pc, lockfile, acceptors>>

\* handle.join() returns once the acceptor thread has ended
StopJoin ==
    /\ halt.stop = "flagged"
    /\ halt.acc = "done"
    /\ acceptors' = acceptors \ {server.port}
    /\ halt' = [halt EXCEPT !.stop = "joined"]
    /\ lifeLog' = Logged("join")
    /\ UNCHANGED <<haltFrame, server, nextClientId, pc, lockfile>>

StopRemoveFile ==
    /\ halt.stop = "joined"
    /\ lockfile' = ServerHandle_stop(server, lockfile)
    /\ halt' = [halt EXCEPT !.stop = "removed"]
    /\ lifeLog' = Logged("remove")
    /\ UNCHANGED <<haltFrame, server, nextClientId, pc, acceptors>>

\* events::notify_server_stopped
StopNotify ==
    /\ halt.stop = "removed"
    /\ halt' = [halt EXCEPT !.stop = "notified"]
    /\ lifeLog' = Logged("ServerStopped")
    /\ UNCHANGED <<haltFrame, server, nextClientId, pc, lockfile, acceptors>>

\* the handle is dropped (ServerHandle::stop once more, with no thread left
\* to join) and the lock released with the singleton empty
StopReturn ==
    /\ halt.stop = "notified"
    /\ lockfile' = ServerHandle_stop(server, lockfile)
    /\ server' = take(server)
    /\ halt' = [halt EXCEPT !.stop = "returned"]
    /\ UNCHANGED <<haltFrame, nextClientId, pc, acceptors, lifeLog>>

\* ------------------------------------------------------------------------
\* server/connection.rs send_initial_state: the closure on the main thread
\* ------------------------------------------------------------------------
\* Hub::broadcast called once for each of the notes, in order
RECURSIVE broadcast_each(_, _, _, _)
broadcast_each(notes, clients, alive, ch) ==
    IF notes = <<>> THEN ch
    ELSE broadcast_each(Tail(notes), clients, alive,
                        broadcast(clients, alive, ch, Head(notes)))

\* the closure scheduled by the burst of connection c runs on the main
\* thread: the visible-files, selection and diagnostics handlers, one after
\* the other, each result dropped; ok*: the handler's editor reads succeed
BurstClosure(okV, okS, okD) ==
    /\ mainTask = <<>>
    /\ workQueue # <<>>
    /\ Head(workQueue).op = "BurstState"
    /\ LET w == Head(workQueue)
           v == visible_files_handle_event(nvimReady, okV, editor,
                                           LAST_VISIBLE_FILES)
           s == selection_handle_event(nvimReady, okS, editor, LAST_SELECTION)
           d == diagnostics_handle_event(nvimReady, okD, editor, LAST_DIAGNOSTICS)
           ch == broadcast_each(v.sent \o s.sent \o d.sent, hub, rxAlive,
                                [q |-> queue, e |-> enq])
       IN
       /\ workQueue' = Tail(workQueue)
       /\ fired' = fired \cup {<<w.op, w.c>>}
       /\ LAST_VISIBLE_FILES' = v.cache
       /\ LAST_SELECTION' = s.cache
       /\ LAST_DIAGNOSTICS' = d.cache
       /\ queue' = ch.q
       /\ enq' = ch.e
    /\ UNCHANGED <<server, nvimReady, nextClientId, hub, connVars, rxAlive, sent,
                   burst, mainTask, routerVars, nExt, lifeVars, hb, editor,
                   handled, timeVars, fileVars, extraVars>>

\* the main thread runs a closure that fires an autocommand
MainEvent == workQueue # <<>> /\ Head(workQueue).op # "BurstState" /\ MainRun

\* ------------------------------------------------------------------------
\* Specifications
\* ------------------------------------------------------------------------
\* start() where the OS hands out the same port every time
StartStep ==
    \E initOk \in BOOLEAN, ioOk \in BOOLEAN, t \in ServerTokens :
        Start(initOk, ioOk, t, "p1") /\ UNCHANGED lifeLog
\* start() as the plugin's setup calls it, all going well
StartOnce ==
    Start(TRUE, TRUE, CHOOSE t \in ServerTokens : TRUE, "p1") /\ UNCHANGED lifeLog
\* the acceptor takes up to n streams
ConnectStep(n) == \E c \in 1..n : HandleConnection(c)
HandshakeStep == \E c \in Conns, r \in Requests : AcceptWithAuth(c, r)

\* handshake, Hub registry and broadcasts from the editor
Next ==
    \/ StartStep
    \/ ConnectStep(MaxConns)
    \/ HandshakeStep
    \/ \E c \in Conns : Register(c)
    \/ \E c \in Conns : EnterOpen(c)
    \/ MainRun
    \/ \E kind \in ExtKinds : EditorBroadcast(kind)
    \/ \E c \in Conns : LoopExit(c)
    \/ \E c \in Conns : Unregister(c)
    \/ \E c \in Conns : DisconnectEvent(c)

Spec == Init /\ [][Next]_vars

\* connections that end side by side
NextDisconnect ==
    \/ StartStep
    \/ ConnectStep(MaxConns)
    \/ HandshakeStep
    \/ \E c \in Conns : Register(c)
    \/ \E c \in Conns : EnterOpen(c)
    \/ MainRun
    \/ \E c \in Conns : LoopExit(c)
    \/ \E c \in Conns : UnregisterNoted(c)
    \/ \E c \in Conns : DisconnectEvent(c)

SpecDisconnect == Init /\ [][NextDisconnect]_vars

\* connections with their initial-state burst
NextBurst ==
    \/ StartStep
    \/ ConnectStep(BurstConns)
    \/ HandshakeStep
    \/ \E c \in Conns : Register(c)
    \/ \E c \in Conns : EnterOpen(c)
    \/ \E c \in Conns : BurstCheckFirst(c)
    \/ \E c \in Conns : BurstMetadata(c)
    \/ \E c \in Conns : BurstSchedule(c)
    \/ MainRun
    \/ \E changed \in BOOLEAN : MainHandler(changed)
    \/ \E c \in Conns : LoopExit(c)
    \/ \E c \in Conns : Unregister(c)
    \/ \E c \in Conns : DisconnectEvent(c)

SpecBurst == Init /\ [][NextBurst]_vars

\* start() and stop() called from the editor, in any order
LifeStart ==
    /\ Len(lifeLog) < MaxLife
    /\ \E initOk \in BOOLEAN, ioOk \in BOOLEAN, t \in ServerTokens, p \in Ports :
          /\ Start(initOk, ioOk, t, p)
          /\ lifeLog' = Append(lifeLog,
                 [op |-> "start", res |-> start(server, initOk, ioOk, t, p)])

LifeStop ==
    /\ Len(lifeLog) < MaxLife
    /\ Stop
    /\ lifeLog' = Append(lifeLog, [op |-> "stop", res |-> Ok("unit")])

NextLife == LifeStart \/ LifeStop

\* AtomicU64::fetch_add, one atomic step: the value before and after
fetch_add_stuck(v, n) == [old |-> v, new |-> v]

fetch_add(v, n) == [old |-> v, new |-> v + n]

\* Hub::next_client_id called by some thread, whatever the server's state
NextClientIdCall ==
    /\ Len(lifeLog) < MaxLife
    /\ nextClientId' = fetch_add(nextClientId, 1).new
    /\ lifeLog' = Append(lifeLog, [op |-> "next_client_id",
                                   res |-> Ok(fetch_add(nextClientId, 1).old)])
    /\ UNCHANGED <<server, nvimReady, hub, connVars, chanVars, sent, burst,
                   mainVars, routerVars, nExt, lockfile, acceptors, quietVars>>

\* start(), stop() and calls of next_client_id in any order
NextIds == LifeStart \/ LifeStop \/ NextClientIdCall

SpecIds == Init /\ [][NextIds]_vars

SpecLife == Init /\ [][NextLife]_vars

\* the three handlers run against a changing editor
HandlerStep ==
    /\ Len(handled) < MaxRuns
    /\ \E readOk \in BOOLEAN :
          \/ HandleSelection(readOk)
          \/ HandleVisibleFiles(readOk)
          \/ HandleDiagnostics(readOk)
    /\ UNCHANGED timeVars

\* an editor that keeps to one window
OneWindowStates == {e \in EditorStates : Len(e.wins) = 1}

NextEditor ==
    \/ StartOnce
    \/ \E e \in OneWindowStates : EditorChange(e)
    \/ HandlerStep

SpecEditor == Init /\ [][NextEditor]_vars

\* the visible-files handler while windows open, close and change buffers
WindowStates == {e \in EditorStates : e.range = 0 /\ e.diag = {}}

VisibleFilesStep ==
    /\ Len(handled) < MaxVisibleRuns
    /\ \E readOk \in BOOLEAN : HandleVisibleFiles(readOk)
    /\ UNCHANGED timeVars

NextWindows ==
    \/ StartOnce
    \/ \E e \in WindowStates : EditorChange(e)
    \/ VisibleFilesStep

SpecWindows == Init /\ [][NextWindows]_vars

\* the cursor autocommand, its timer and the clock
CursorStates == {e \in OneWindowStates : e.diag = {}}

NextDebounce ==
    \/ StartOnce
    \/ \E e \in CursorStates : EditorChange(e)
    \/ Len(evLog) < MaxEvents /\ \E timerOk \in BOOLEAN : CursorMoved(timerOk)
    \/ \E readOk \in BOOLEAN : TimerFire(readOk)
    \/ Len(evLog) < MaxEvents /\ \E readOk \in BOOLEAN : ModeChanged(readOk)
    \/ \E d \in {DEBOUNCE_MS \div 2, DEBOUNCE_MS} : Tick(d)

SpecDebounce == Init /\ [][NextDebounce]_vars

\* the three handlers with sends that can fail
SendStep ==
    /\ Len(handled) < MaxRuns
    /\ \E kind \in SlotKinds, readOk \in BOOLEAN, sendOk \in BOOLEAN :
          HandleSend(kind, readOk, sendOk)
    /\ UNCHANGED timeVars

NextCells ==
    \/ StartOnce
    \/ \E e \in CursorStates : EditorChange(e)
    \/ SendStep

SpecCells == Init /\ [][NextCells]_vars

\* background threads scheduling closures and the main thread running them
NextSched ==
    \/ StartOnce
    \/ \E p \in Producers : ScheduleSend(p)
    \/ \E p \in Producers : ScheduleWake(p)
    \/ CallbackBegin
    \/ CallbackTake
    \/ CallbackEnd

\* a thread that has sent goes on to wake the handle, and the event loop
\* runs the callback of a pending handle
SpecSched ==
    /\ Init
    /\ [][NextSched]_vars
    /\ \A p \in Producers : WF_vars(ScheduleWake(p))
    /\ WF_vars(CallbackBegin)
    /\ WF_vars(CallbackTake)
    /\ WF_vars(CallbackEnd)

\* connections whose peers send close frames while the editor broadcasts
NextClose ==
    \/ StartOnce
    \/ ConnectStep(LoopConns)
    \/ HandshakeStep
    \/ \E c \in Conns : Register(c)
    \/ \E c \in Conns : EnterOpen(c)
    \/ \E kind \in ExtKinds : EditorBroadcast(kind)
    \/ \E c \in Conns, sendOk \in BOOLEAN : OutboundBeforeClose(c, sendOk)
    \/ \E c \in Conns : ReadCloseFrame(c)
    \/ \E c \in Conns : IterationAfterClose(c)
    \/ \E c \in Conns : Unregister(c)

SpecClose == Init /\ [][NextClose]_vars

\* the three debounced callbacks, their timers and the clock
SlotStates == {e \in CursorStates : e.range = 0}

NextSlots ==
    \/ StartOnce
    \/ \E e \in SlotStates : EditorChange(e)
    \/ \E k \in SlotKinds, timerOk \in BOOLEAN : SlotEvent(k, timerOk)
    \/ \E k \in SlotKinds, readOk \in BOOLEAN : SlotFire(k, readOk)
    \/ \E d \in {DEBOUNCE_MS \div 2, DEBOUNCE_MS} : SlotTick(d)

SpecSlots == Init /\ [][NextSlots]_vars

\* connections that open one after the other, each with its burst, while
\* the editor's windows change
NextInitial ==
    \/ StartOnce
    \/ \E e \in SlotStates : EditorChange(e)
    \/ ConnectStep(MaxConns)
    \/ HandshakeStep
    \/ \E c \in Conns : Register(c)
    \/ \E c \in Conns : EnterOpen(c)
    \/ \E c \in Conns : BurstCheckFirst(c)
    \/ \E c \in Conns : BurstMetadata(c)
    \/ \E c \in Conns : BurstSchedule(c)
    \/ MainEvent
    \/ \E okV \in BOOLEAN, okS \in BOOLEAN, okD \in BOOLEAN :
          BurstClosure(okV, okS, okD)
    \/ \E c \in Conns : LoopExit(c)
    \/ \E c \in Conns : Unregister(c)

SpecInitial == Init /\ [][NextInitial]_vars

\* file requests, with the user and other programs changing buffers and
\* files in between
NextFiles ==
    \/ StartOnce
    \/ \E f \in Files, c \in Contents, dirOk \in BOOLEAN, setOk \in BOOLEAN,
          writeOk \in BOOLEAN : EditFile(f, c, dirOk, setOk, writeOk)
    \/ \E f \in Files, readOk \in BOOLEAN : ReadFile(f, readOk)
    \/ \E f \in Files, b \in {<<>>} \cup {<<l>> : l \in BufferLines} :
          BufferChange(f, b)
    \/ \E f \in Files, c \in {<<>>} \cup {<<x>> : x \in Contents} :
          DiskChange(f, c)

SpecFiles == Init /\ [][NextFiles]_vars

\* connections that come and go while broadcasts take the Hub mutex
NextHubLock ==
    \/ StartOnce
    \/ ConnectStep(MaxConns)
    \/ HandshakeStep
    \/ \E c \in Conns : LockedRegister(c)
    \/ \E c \in Conns : EnterOpen(c)
    \/ \E kind \in ExtKinds : BroadcastLock(kind)
    \/ \E c \in Conns : BroadcastSend(c)
    \/ BroadcastUnlock
    \/ \E c \in Conns : LoopExit(c)
    \/ \E c \in Conns : LockedUnregister(c)

SpecHubLock == Init /\ [][NextHubLock]_vars

\* token comparisons, byte by byte
NextCompare ==
    \/ \E a \in AuthVals, b \in AuthVals : CtEqCall(a, b)
    \/ CtEqLen
    \/ CtEqByte
    \/ CtEqReturn
    \/ CtEqDone

SpecCompare == Init /\ [][NextCompare]_vars

\* one connection and the clock of its message loop
HeartbeatStep(c) ==
    \E ev \in ReadEvents, d \in ReadDelays, pingOk \in BOOLEAN :
        LoopIteration(c, ev, d, pingOk)

NextHeartbeat ==
    \/ StartStep
    \/ ConnectStep(1)
    \/ HandshakeStep
    \/ \E c \in Conns : Register(c)
    \/ \E c \in Conns : EnterOpen(c)
    \/ \E c \in Conns : HeartbeatStep(c)
    \/ \E c \in Conns : Unregister(c)
    \/ \E c \in Conns : DisconnectEvent(c)

\* a connection thread that can take a step takes it
SpecHeartbeat ==
    /\ Init
    /\ [][NextHeartbeat]_vars
    /\ \A c \in Conns :
          /\ WF_vars(HeartbeatStep(c))
          /\ WF_vars(Unregister(c))

\* one connection, and stop() called while it is in its handshake or its loop
ShutdownStart ==
    /\ lifeLog = <<>>
    /\ \E t \in ServerTokens :
          /\ Start(TRUE, TRUE, t, "p1")
          /\ lifeLog' = Append(lifeLog,
                 [op |-> "start", res |-> start(server, TRUE, TRUE, t, "p1")])

ShutdownStop == server # None /\ LifeStop

\* a peer's upgrade request arrives while the server runs; a peer that has
\* sent nothing when stop() is called sends nothing afterwards
ShutdownHandshake == server # None /\ HandshakeStep

NextShutdown ==
    \/ ShutdownStart
    \/ ShutdownStop
    \/ ConnectStep(1)
    \/ ShutdownHandshake
    \/ \E c \in Conns : Register(c)
    \/ \E c \in Conns : EnterOpen(c)
    \/ \E c \in Conns : HeartbeatStep(c)
    \/ \E c \in Conns : Unregister(c)
    \/ \E c \in Conns : DisconnectEvent(c)

SpecShutdown == Init /\ [][NextShutdown]_vars

\* one start(), the acceptor thread and one stop(), step by step
NextStop ==
    \/ ShutdownStart
    \/ AcceptorCheck
    \/ \E stream \in BOOLEAN : AcceptorAccept(stream)
    \/ ShutdownHandshake
    \/ StopSetFlag
    \/ StopJoin
    \/ StopRemoveFile
    \/ StopNotify
    \/ StopReturn

\* the acceptor thread and the thread that called stop() keep running
SpecStop ==
    /\ Init
    /\ [][NextStop]_vars
    /\ WF_vars(AcceptorCheck)
    /\ WF_vars(\E stream \in BOOLEAN : AcceptorAccept(stream))
    /\ WF_vars(StopJoin)
    /\ WF_vars(StopRemoveFile)
    /\ WF_vars(StopNotify)
    /\ WF_vars(StopReturn)

\* connections whose loop drains the outbound queue while the editor
\* broadcasts
NextLoop ==
    \/ StartStep
    \/ ConnectStep(LoopConns)
    \/ HandshakeStep
    \/ \E c \in Conns : Register(c)
    \/ \E c \in Conns : EnterOpen(c)
    \/ \E kind \in ExtKinds : EditorBroadcast(kind)
    \/ \E c \in Conns, sendOk \in BOOLEAN : LoopOutbound(c, sendOk)
    \/ \E c \in Conns : LoopExit(c)
    \/ \E c \in Conns : Unregister(c)

SpecLoop == Init /\ [][NextLoop]_vars

\* an Open connection reading text frames
NextRouter ==
    \/ StartStep
    \/ ConnectStep(RouterConns)
    \/ HandshakeStep
    \/ \E c \in Conns : Register(c)
    \/ \E c \in Conns : EnterOpen(c)
    \/ \E c \in Conns, f \in Frames : HandleTextMessage(c, f)

SpecRouter == Init /\ [][NextRouter]_vars

\* ------------------------------------------------------------------------
\* Properties of the inbound path (SpecRouter)
\* ------------------------------------------------------------------------
\* frames written to c's socket by the step
Wrote(c) == SubSeq(sent'[c], Len(sent[c]) + 1, Len(sent'[c]))
SentElsewhereSame(c) == \A d \in Conns \ {c} : sent'[d] = sent[d]

\* a request: a JSON-RPC object with an id, or a wrapped clientRequest
\* with an id
IsRequest(f) == f.json /\ (f.cr \/ f.jr) /\ f.id # NoId
\* a JSON-RPC message without an id
IsNotification(f) == f.json /\ f.jr /\ f.id = NoId
\* a request that deserializes and names exactly one method
WellFormedRequest(f) ==
    /\ f.json
    /\ Cardinality(f.methods) = 1
    /\ \/ f.cr /\ f.id \in StrIds
       \/ ~f.cr /\ f.jr /\ f.id \in StrIds \cup NumIds
\* the failure of the handler the frame's method names ("none": success)
HandlerFailure(f) ==
    IF f.methods \subseteq {"ping", "authenticate", "readFile", "editFile",
                            "getDiagnostics", "ide/ping", "ide/readFile",
                            "ide/editFile", "nvim/notify"}
    THEN IF f.outcome = "ok" THEN "none" ELSE f.outcome
    ELSE "CommandNotFound"
\* the code the error taxonomy assigns to a failure
TaxonomyCode(failure) ==
    CASE failure = "CommandNotFound" -> -32601
      [] failure = "InvalidArgs"     -> -32602
      [] failure = "IoError"         -> -32003
      [] failure = "Other"           -> -32603

\* a step that handles an inbound text frame: Fr on connection Cn
FrameStep == nFrames' # nFrames
Fr == last'.frame
Cn == last'.conn

\* C1: every text frame an Open connection receives that is a request (a
\* JSON-RPC object with an id, or a wrapped clientRequest with an id) is
\* answered with exactly one response frame on the same connection carrying
\* the same id.
C1_ExactlyOneResponse ==
    [][FrameStep /\ IsRequest(Fr)
          => /\ Len(Wrote(Cn)) = 1
             /\ Wrote(Cn)[1].id = Fr.id
             /\ SentElsewhereSame(Cn)]_vars

\* C2: a JSON-RPC message received without an id is never answered: no
\* frame is written on any connection, whether the handler succeeds, fails
\* or the method is unknown.
C2_NotificationSilent ==
    [][FrameStep /\ IsNotification(Fr) => sent' = sent]_vars

\* a notification whose handler failed, and one whose method is unknown,
\* have been handled and nothing was written
C2_Witness ==
    /\ last.conn # 0
    /\ IsNotification(last.frame)
    /\ ~last.frame.cr
    /\ last.res.out = "Err"
    /\ last.res.err \in {"InvalidArgs", "CommandNotFound"}
    /\ last.wrote = <<>>

\* C3: the dialect is selected by the top-level keys alone: with a
\* clientRequest key the frame is handled as wrapped and any answer is a
\* serverResponse; otherwise with a jsonrpc key it is handled as JSON-RPC and
\* any answer is a {jsonrpc, id, ...} object; with neither key it fails as an
\* unknown format and nothing is written.
C3_DialectByShape ==
    [][FrameStep /\ Fr.json
          => /\ (Fr.cr => /\ last'.res.branch = "wrapped"
                         /\ \A i \in 1..Len(Wrote(Cn)) : Wrote(Cn)[i].dialect = "wrapped")
             /\ (~Fr.cr /\ Fr.jr
                   => /\ last'.res.branch = "jsonrpc"
                      /\ \A i \in 1..Len(Wrote(Cn)) : Wrote(Cn)[i].dialect = "jsonrpc")
             /\ (~Fr.cr /\ ~Fr.jr
                   => /\ last'.res.branch = "unknown"
                      /\ last'.res.out = "Err"
                      /\ Wrote(Cn) = <<>>)
             /\ Len(Wrote(Cn)) <= 1
             /\ SentElsewhereSame(Cn)]_vars

\* a JSON-RPC request has been answered in the JSON-RPC dialect
C3_Witness ==
    /\ last.conn # 0
    /\ last.frame.json /\ ~last.frame.cr /\ last.frame.jr
    /\ last.frame.id \in NumIds
    /\ last.wrote # <<>>
    /\ last.wrote[1].dialect = "jsonrpc"

\* C4: when the handler of a request fails, the answer is an error response
\* carrying the taxonomy code of the failure (-32601 unknown method, -32602
\* invalid arguments), the same in both dialects.
C4_ErrorCodes ==
    [][(FrameStep /\ WellFormedRequest(Fr) /\ HandlerFailure(Fr) # "none")
          => /\ Len(Wrote(Cn)) = 1
             /\ Wrote(Cn)[1].key = "error"
             /\ Wrote(Cn)[1].code = TaxonomyCode(HandlerFailure(Fr))
             /\ Wrote(Cn)[1].id = Fr.id]_vars

\* a wrapped request was answered with the invalid-arguments code
C4_Witness ==
    /\ last.conn # 0
    /\ last.frame.cr
    /\ WellFormedRequest(last.frame)
    /\ HandlerFailure(last.frame) = "InvalidArgs"
    /\ last.wrote # <<>>
    /\ last.wrote[1].code = -32602

\* C5: a wrapped clientRequest with an id and zero or more than one
\* method-named key is rejected as InvalidRequest (-32600, answered with an
\* error response) and no method handler is invoked for it.
C5_InvalidRequest ==
    [][(FrameStep /\ Fr.json /\ Fr.cr /\ Fr.id \in StrIds
                  /\ Cardinality(Fr.methods) # 1)
          => /\ last'.res.routed = ""
             /\ last'.res.out # "None"
             /\ (last'.res.out = "Err" => to_jsonrpc_code(last'.res.err) = -32600)
             /\ Len(Wrote(Cn)) = 1
             /\ Wrote(Cn)[1].key = "error"
             /\ Wrote(Cn)[1].code = -32600]_vars

\* C6: a text frame that is not well-formed JSON is classified with code
\* -32700; a response carrying that code is written if the frame was a
\* request, and nothing is written if it was a notification.
C6_ParseError ==
    [][FrameStep /\ ~Fr.json
          => /\ last'.res.out = "Err"
             /\ to_jsonrpc_code(last'.res.err) = -32700
             /\ (Fr.id # NoId => /\ Len(Wrote(Cn)) = 1
                                /\ Wrote(Cn)[1].code = -32700)
             /\ (Fr.id = NoId => Wrote(Cn) = <<>>)]_vars

\* ------------------------------------------------------------------------
\* Properties of the handshake and the Hub (Spec) and of the burst (SpecBurst)
\* ------------------------------------------------------------------------
ConnectedEvent(c) == [op |-> "ClientConnected", c |-> c]
Scheduled(w) == \E i \in 1..Len(workQueue) : workQueue[i] = w
Range(q) == {q[i] : i \in 1..Len(q)}
\* the upgrade request carries no auth parameter or a value that is not
\* the server's token
BadAuth(r) == r.auth = NoAuth \/ r.auth # server.token

\* the step answers c's upgrade request
Answered(c) == pc[c] = "Handshake" /\ pc'[c] # "Handshake"

\* what a rejected handshake leaves behind
RejectedInv ==
    \A c \in Conns :
        status[c] \in {400, 401}
        => /\ pc[c] = "Closed"
           /\ c \notin hub
           /\ ~Scheduled(ConnectedEvent(c))
           /\ <<"ClientConnected", c>> \notin fired
           /\ burst[c] = "none"
           /\ enq[c] = <<>>

\* C7 as stated: an upgrade request with no auth parameter or with a value
\* other than the server's token is answered with HTTP 401, the Hub's
\* client set is the same after the attempt as before it, the connection is
\* never registered and no ClientConnected event is fired for it.
C7_Rejected401 ==
    [][/\ \A c \in Conns : Answered(c) => \A r \in Requests :
             AcceptWithAuth(c, r) /\ BadAuth(r)
             => /\ status'[c] = 401
                /\ pc'[c] = "Closed"
                /\ hub' = hub
                /\ workQueue' = workQueue
                /\ fired' = fired
       /\ RejectedInv']_vars

\* C7 (amended): such a request is answered with HTTP 401, or with HTTP 400
\* when its URL does not parse; either way the Hub's client set is the same
\* after the attempt as before it, the connection is never registered and
\* no ClientConnected event is scheduled or fired for it.
C7_RejectedNotRegistered ==
    [][/\ \A c \in Conns : Answered(c) => \A r \in Requests :
             AcceptWithAuth(c, r) /\ BadAuth(r)
             => /\ status'[c] = IF r.urlOk THEN 401 ELSE 400
                /\ pc'[c] = "Closed"
                /\ hub' = hub
                /\ workQueue' = workQueue
                /\ fired' = fired
       /\ RejectedInv']_vars

\* a handshake was answered 401 while another client is registered
C7_Witness ==
    \E c \in Conns :
        /\ status[c] = 401
        /\ pc[c] = "Closed"
        /\ hub # {}
        /\ c \notin hub

\* the thread of a connection that passed the handshake: it registers, then
\* schedules ClientConnected and spawns the burst as it enters the loop
OpensAfterHandshake(c) ==
    /\ (pc[c] = "Authenticated" /\ pc'[c] # pc[c])
          => pc'[c] = "Registered" /\ c \in hub'
    /\ (pc[c] = "Registered" /\ pc'[c] # pc[c])
          => /\ pc'[c] = "Open"
             /\ c \in hub'
             /\ workQueue' = Append(workQueue, ConnectedEvent(c))
             /\ burst'[c] = "sleep200"

OpenInv ==
    \A c \in Conns :
        pc[c] = "Open"
        => /\ c \in hub
           /\ Scheduled(ConnectedEvent(c)) \/ <<"ClientConnected", c>> \in fired
           /\ burst[c] # "none"

\* in what is enqueued for c, every state notification of c's own burst
\* comes after the burst's pluginMetadata
BurstOrderInv ==
    \A c \in Conns : \A i \in 1..Len(enq[c]) :
        (enq[c][i].src = c /\ enq[c][i].kind \in StateKinds)
        => \E j \in 1..(i - 1) : enq[c][j] = Msg("pluginMetadata", c, 0)

MetadataText(c) == Msg("pluginMetadata", c, 0)
HandlerBroadcasts == mainTask # <<>> /\ MainHandler(TRUE)
EditorText(k) == Msg(k, 0, nExt + 1)

EnqueuedOnce(c, m) ==
    /\ queue'[c] = Append(queue[c], m)
    /\ enq'[c] = Append(enq[c], m)
NotEnqueued(c) ==
    /\ queue'[c] = queue[c]
    /\ enq'[c] = enq[c]

DeliveredToRegistered(m) ==
    \A c \in Conns : IF c \in hub THEN EnqueuedOnce(c, m) ELSE NotEnqueued(c)

DeliveredToOpenQueues(m) ==
    \A c \in Conns :
        IF c \in hub /\ rxAlive[c] THEN EnqueuedOnce(c, m) ELSE NotEnqueued(c)

\* C9 as stated: a broadcast of M enqueues M exactly once on the outbound
\* queue of every client registered at that time, and on no other.
C9_EveryRegistered ==
    [][/\ \A c \in Conns : BurstMetadata(c) => DeliveredToRegistered(MetadataText(c))
       /\ HandlerBroadcasts => DeliveredToRegistered(Head(mainTask))
       /\ \A k \in ExtKinds : EditorBroadcast(k) => DeliveredToRegistered(EditorText(k))]_vars

\* C9 (amended): a broadcast of M enqueues M exactly once on the outbound
\* queue of every registered client whose queue is still open, and on no
\* other; registered clients whose receiver is gone get nothing.
C9_EveryRegisteredOpenQueue ==
    [][/\ \A c \in Conns : BurstMetadata(c) => DeliveredToOpenQueues(MetadataText(c))
       /\ HandlerBroadcasts => DeliveredToOpenQueues(Head(mainTask))
       /\ \A k \in ExtKinds : EditorBroadcast(k) => DeliveredToOpenQueues(EditorText(k))]_vars

\* two registered clients each hold the same broadcast text exactly once
C9_Witness ==
    \E c1 \in Conns, c2 \in Conns :
        /\ c1 # c2
        /\ {c1, c2} \subseteq hub
        /\ \E m \in Range(enq[c1]) :
              /\ m.src = 0
              /\ Cardinality({i \in 1..Len(enq[c1]) : enq[c1][i] = m}) = 1
              /\ Cardinality({i \in 1..Len(enq[c2]) : enq[c2][i] = m}) = 1

SkipsClosedQueues(m) ==
    (\E d \in hub : ~rxAlive[d])
    => /\ hub' = hub
       /\ rxAlive' = rxAlive
       /\ \A c \in hub : IF rxAlive[c] THEN EnqueuedOnce(c, m) ELSE NotEnqueued(c)

\* C10: a broadcast that meets a registered client whose queue is closed
\* skips that client and nothing else: every other registered client still
\* gets the message and the Hub registry is left unchanged.
C10_ClosedQueueSkipped ==
    [][/\ \A c \in Conns : BurstMetadata(c) => SkipsClosedQueues(MetadataText(c))
       /\ HandlerBroadcasts => SkipsClosedQueues(Head(mainTask))
       /\ \A k \in ExtKinds : EditorBroadcast(k) => SkipsClosedQueues(EditorText(k))]_vars

\* a client that is still registered got the first broadcast and, its queue
\* closed since, missed the second one, which another registered client holds
C10_Witness ==
    \E c1 \in Conns, c2 \in Conns, k \in ExtKinds :
        /\ c1 # c2
        /\ {c1, c2} \subseteq hub
        /\ ~rxAlive[c1]
        /\ Msg(k, 0, 1) \in Range(enq[c1])
        /\ Msg(k, 0, 2) \notin Range(enq[c1])
        /\ Msg(k, 0, 2) \in Range(enq[c2])

\* ------------------------------------------------------------------------
\* Properties of the outbound path (SpecLoop)
\* ------------------------------------------------------------------------
\* the notifications among the frames written to c's socket, in order
IsNotificationText(m) == "kind" \in DOMAIN m
WrittenNotifications(c) == SelectSeq(sent[c], IsNotificationText)
IsPrefix(s, t) == Len(s) <= Len(t) /\ s = SubSeq(t, 1, Len(s))
\* the editor-side broadcasts are numbered in the order they are issued
InBroadcastOrder(s) ==
    \A i \in 1..Len(s), j \in 1..Len(s) : i < j => s[i].serial < s[j].serial

\* C11: if M1 is broadcast before M2, a client writes M1 to its socket before
\* M2: what a client has written is a prefix of what was enqueued for it,
\* which is in broadcast order, and only the client's own loop takes
\* messages off its queue.
C11_OrderPerClient ==
    [][/\ \A c \in Conns :
             /\ IsPrefix(WrittenNotifications(c), enq[c])'
             /\ InBroadcastOrder(enq[c])'
             /\ (Len(queue'[c]) < Len(queue[c]))
                   => \/ \E sendOk \in BOOLEAN : LoopOutbound(c, sendOk)
                      \/ LoopExit(c)]_vars

\* a client has written two broadcasts, the first one first
C11_Witness ==
    \E c \in Conns :
        /\ pc[c] = "Open"
        /\ Len(sent[c]) = 2
        /\ sent[c][1].serial = 1
        /\ sent[c][2].serial = 2

\* ------------------------------------------------------------------------
\* Properties of the lifecycle (SpecLife)
\* ------------------------------------------------------------------------
AlreadyRunning == Err("Other: Server already running")
LockfilesPresent == {p \in Ports : lockfile[p] # NoFile}
LastCall == lifeLog[Len(lifeLog)]
StartReturns == Len(lifeLog') > Len(lifeLog) /\ LastCall'.op = "start"
StopReturns == Len(lifeLog') > Len(lifeLog) /\ LastCall'.op = "stop"
InstanceUnchanged == UNCHANGED <<server, hub, acceptors, lockfile>>

\* one acceptor and one lockfile at most, and none without a stored handle
SingleInstance ==
    /\ Cardinality(acceptors) <= 1
    /\ Cardinality(LockfilesPresent) <= 1
    /\ acceptors = (IF server = None THEN {} ELSE {server.port})

C13_StopIdempotent ==
    /\ [](Len(lifeLog) < MaxLife => ENABLED LifeStop)
    /\ [][StopReturns
            => /\ LastCall'.res.ok
               /\ ~is_running(server')
               /\ get_port(server') = <<>>
               /\ get_hub(server', hub') = <<>>
               /\ server = None => InstanceUnchanged]_vars

\* stop() was called with no server ever started and, after a successful
\* start, twice in a row
C13_Witness ==
    /\ Len(lifeLog) = 4
    /\ lifeLog[1].op = "stop"
    /\ lifeLog[2].op = "start" /\ lifeLog[2].res.ok
    /\ lifeLog[3].op = "stop"
    /\ lifeLog[4].op = "stop"
    /\ ~is_running(server)

C15_RestartAfterStop ==
    [][(StartReturns /\ lifeLog # <<>> /\ LastCall.op = "stop")
          => /\ LastCall'.res # AlreadyRunning
             /\ \A initOk \in BOOLEAN, ioOk \in BOOLEAN,
                   t \in ServerTokens, p \in Ports :
                   (Start(initOk, ioOk, t, p) /\ initOk /\ ioOk)
                   => LastCall'.res.ok
             /\ LastCall'.res.ok
                   => /\ is_running(server')
                      /\ get_port(server') = <<LastCall'.res.val.port>>]_vars

\* start, stop, start: both starts succeeded and the server runs on the
\* port of the second
C15_Witness ==
    /\ Len(lifeLog) = 3
    /\ lifeLog[1].op = "start" /\ lifeLog[1].res.ok
    /\ lifeLog[2].op = "stop"
    /\ lifeLog[3].op = "start" /\ lifeLog[3].res.ok
    /\ lifeLog[3].res.val.port # lifeLog[1].res.val.port
    /\ get_port(server) = <<lifeLog[3].res.val.port>>

\* ------------------------------------------------------------------------
\* Properties of the heartbeat (SpecHeartbeat)
\* ------------------------------------------------------------------------
SincePong(c) == hb[c].now - hb[c].last_pong
TimedOut(c) == hb[c].exit = "pong timeout"

HandlerKinds == {"selection", "visible", "diagnostics"}
\* the runs of one kind's handler that read an editor state, in order
RunsOf(kind) == LET OfKind(e) == e.kind = kind IN SelectSeq(handled, OfKind)
\* the editor state a reading stands for: the current file and cursor range,
\* the set of files on show, the set of buffers with diagnostics
StateOf(kind, reading) == IF kind = "visible" THEN Range(reading) ELSE reading
SeenStates(kind) ==
    LET runs == RunsOf(kind) IN
    [i \in 1..Len(runs) |-> StateOf(kind, runs[i].seen)]
\* the notifications one kind's handler gave to Hub::broadcast, in order
BroadcastsOf(kind) ==
    LET runs == RunsOf(kind)
        DidSend(e) == e.sent # <<>>
        sending == SelectSeq(runs, DidSend)
    IN  [i \in 1..Len(sending) |-> sending[i].sent[1]]
RECURSIVE Dedup(_)
Dedup(s) ==
    IF Len(s) <= 1 THEN s
    ELSE IF s[1] = s[2] THEN Dedup(Tail(s))
    ELSE <<s[1]>> \o Dedup(Tail(s))
\* notification note reports editor state st
Carries(kind, note, st) ==
    CASE kind = "selection" ->
           /\ note.method = "selectionDidChange"
           /\ note.params = [uri |-> to_uri(st.path), range |-> st.range]
      [] kind = "visible" ->
           /\ note.method = "visibleFilesDidChange"
           /\ Range(note.params.uris) = {to_uri(f) : f \in st}
           /\ Len(note.params.uris) = Cardinality(st)
      [] kind = "diagnostics" ->
           /\ note.method = "diagnosticsDidChange"
           /\ {e.uri : e \in note.params.entries} = {to_uri(f) : f \in st}

\* C17: for each of the selection, visible-files and diagnostics kinds, the
\* broadcasts made are, in order, the editor states the handler read with
\* consecutive duplicates removed: a run on the state of the run before it
\* sends nothing, and a state that comes back after another is sent again.
C17_ChangeSuppression ==
    \A kind \in HandlerKinds :
        LET states == Dedup(SeenStates(kind))
            notes == BroadcastsOf(kind)
        IN  /\ Len(notes) = Len(states)
            /\ \A i \in 1..Len(states) : Carries(kind, notes[i], states[i])

\* the selection handler read A, A, B, A and broadcast A, B, A
C17_Witness ==
    LET states == SeenStates("selection") IN
    /\ Len(states) = 4
    /\ states[1] = states[2]
    /\ states[2] # states[3]
    /\ states[4] = states[1]
    /\ Len(BroadcastsOf("selection")) = 3

\* ------------------------------------------------------------------------
\* Properties of the cursor debounce (SpecDebounce)
\* ------------------------------------------------------------------------
CursorEvents == {i \in 1..Len(evLog) : evLog[i].ev = "cursor"}
TimerRuns == {i \in 1..Len(evLog) : evLog[i].ev = "run"}
Min(S) == CHOOSE x \in S : \A y \in S : x <= y
\* every debounced run comes 10 ms after a cursor event, with no other
\* cursor event and no other debounced run in between
RunFollowsLastEvent ==
    \A i \in TimerRuns :
        \E j \in CursorEvents :
            /\ j < i
            /\ evLog[j].armed
            /\ evLog[i].t = evLog[j].t + DEBOUNCE_MS
            /\ \A k \in (j + 1)..(i - 1) : k \notin CursorEvents \cup TimerRuns
\* a cursor event is followed within its window by the next cursor event,
\* or else at the window's end by the run, which is still to come only
\* while the window is open
EventCoalescedOrRun ==
    \A j \in CursorEvents :
        evLog[j].armed =>
            LET later == {k \in CursorEvents \cup TimerRuns : k > j} IN
            IF later = {}
            THEN /\ clock <= evLog[j].t + DEBOUNCE_MS
                 /\ debounce_timer.live = {evLog[j].t + DEBOUNCE_MS}
            ELSE LET k == Min(later) IN
                 IF k \in TimerRuns
                 THEN evLog[k].t = evLog[j].t + DEBOUNCE_MS
                 ELSE evLog[k].t <= evLog[j].t + DEBOUNCE_MS
OneRunPerWindow == RunFollowsLastEvent /\ EventCoalescedOrRun
HandlerRuns == {i \in 1..Len(evLog) : evLog[i].ev \in {"run", "mode"}}

Sorted(uris) == \A i \in 1..(Len(uris) - 1) : str_le(uris[i], uris[i + 1])
VisibleRuns == RunsOf("visible")

\* C19: visibleFilesDidChange does not depend on window order: a run of the
\* handler that finds the same set of files on show as the run before it,
\* in whatever window order, broadcasts nothing, a run that finds another
\* set broadcasts it, and the uris of every broadcast are in sorted order.
C19_OrderInsensitive ==
    /\ \A i \in 1..Len(VisibleRuns) :
          /\ (VisibleRuns[i].sent = <<>>)
                <=> (i > 1 /\ Range(VisibleRuns[i].seen)
                               = Range(VisibleRuns[i - 1].seen))
          /\ VisibleRuns[i].sent # <<>>
                => /\ Sorted(VisibleRuns[i].sent[1].params.uris)
                   /\ Range(VisibleRuns[i].sent[1].params.uris)
                         = {to_uri(f) : f \in Range(VisibleRuns[i].seen)}
    /\ LAST_VISIBLE_FILES # <<>> => Sorted(LAST_VISIBLE_FILES[1])

\* two runs in a row found the same two files in opposite window orders,
\* the first of them in descending order; one broadcast was made
C19_Witness ==
    /\ Len(VisibleRuns) = 2
    /\ Len(VisibleRuns[1].seen) = 2
    /\ ~Sorted(VisibleRuns[1].seen)
    /\ VisibleRuns[2].seen # VisibleRuns[1].seen
    /\ Range(VisibleRuns[2].seen) = Range(VisibleRuns[1].seen)
    /\ Len(BroadcastsOf("visible")) = 1
    /\ Sorted(BroadcastsOf("visible")[1].params.uris)

\* ------------------------------------------------------------------------
\* Properties of the file operations (SpecFiles)
\* ------------------------------------------------------------------------
\* a readFile of the path of the last successful editFile, with no change
\* to the file or its buffer in between
ReadAfterEdit ==
    /\ rt.edit # <<>>
    /\ rt.read # <<>>
    /\ rt.read[1].path = rt.edit[1].path

\* C20: a readFile(p) that follows a successful editFile(p, C) with no
\* change in between returns content equal to C, when p has a loaded
\* buffer and when it is only on disk (there, unless reading the file
\* fails).
C20_EditThenRead ==
    ReadAfterEdit =>
        LET p == rt.edit[1].path
            res == rt.read[1].res
        IN  /\ res.ok => res.val.content = rt.edit[1].content
            /\ (buffers[p] # <<>> \/ rt.read[1].readOk) => res.ok

\* a file with a loaded buffer was given the content "a\n" and read back
C20_Witness ==
    /\ ReadAfterEdit
    /\ buffers[rt.edit[1].path] # <<>>
    /\ rt.edit[1].content = <<1, NL>>
    /\ rt.read[1].res.ok
    /\ rt.read[1].res.val.content = <<1, NL>>

\* ------------------------------------------------------------------------
\* Properties of the connection's end (SpecDisconnect)
\* ------------------------------------------------------------------------
DisconnectedScheduled(c) ==
    \/ <<"ClientDisconnected", c>> \in fired
    \/ \E i \in 1..Len(workQueue) :
          workQueue[i] = [op |-> "ClientDisconnected", c |-> c]

\* C21: ClientDisconnected is fired exactly once each time the Hub goes from
\* non-empty to empty: a connection that has closed fired it if and only if
\* its own unregister removed the last client.
C21_DisconnectedOncePerEmptying ==
    \A c \in Conns :
        pc[c] = "Closed" /\ status[c] = 101
            => (DisconnectedScheduled(c) <=> c \in lastOut)

\* ------------------------------------------------------------------------
\* Properties of the token comparison (SpecCompare)
\* ------------------------------------------------------------------------
FirstDiff(a, b) ==
    IF \E i \in 1..Len(a) : a[i] # b[i]
    THEN CHOOSE i \in 1..Len(a) : a[i] # b[i] /\ \A j \in 1..(i - 1) : a[j] = b[j]
    ELSE Len(a) + 1

\* C22: ct_eq is constant-time: on arguments of equal length the number of
\* byte comparisons it makes is the length, whatever the position of the
\* first difference, and while it runs it has made one comparison per
\* position passed; its answer is that of the comparison as a whole.
C22_ConstantTime ==
    /\ cmp.phase = "done" /\ Len(cmp.a) = Len(cmp.b)
          => /\ cmp.steps = Len(cmp.a)
             /\ cmp.result = ct_eq(cmp.a, cmp.b)
    /\ cmp.phase = "bytes" => cmp.steps = cmp.i - 1

\* a comparison of two tokens that differ in their first byte has ended
\* after going over all their bytes
C22_Witness ==
    /\ cmp.phase = "done"
    /\ Len(cmp.a) = Len(cmp.b)
    /\ FirstDiff(cmp.a, cmp.b) = 1
    /\ cmp.steps = Len(cmp.a)
    /\ cmp.steps > 1
    /\ ~cmp.result

\* ------------------------------------------------------------------------
\* Properties of stop() with connections alive (SpecShutdown)
\* ------------------------------------------------------------------------
Stopped == lifeLog # <<>> /\ LastCall.op = "stop"
LoopIterates(c) == pc[c] = "Open" /\ hb'[c] # hb[c]

\* C23: once stop() has set the shutdown flag, an Open connection leaves its
\* loop in the iteration it is in (within one read timeout), and a client
\* whose connection has left the loop does not stay registered.
C23_StopClosesConnections ==
    [][Stopped => \A c \in Conns : LoopIterates(c) => pc'[c] # "Open"]_vars

\* the loop of c has ended for the given reason and c has gone on
LeftAfter(c, reason) ==
    /\ status[c] = 101
    /\ hb[c].exit = reason
    /\ pc[c] \in {"Unregistered", "Closed"}

C25_NoSendUnderMutex ==
    [][(\E c \in Conns : enq'[c] # enq[c]) => hubLock.owner = "none"]_vars

\* ------------------------------------------------------------------------
\* Properties of the loop's outbound step (SpecLoop)
\* ------------------------------------------------------------------------
\* C26: a loop iteration that writes outbound frames writes every frame
\* pending in the connection's queue: when it goes on to wait for the next
\* inbound frame the queue is empty.
C26_IterationDrainsQueue ==
    [][\A c \in Conns :
          pc[c] = "Open" /\ Len(sent'[c]) > Len(sent[c]) => queue'[c] = <<>>]_vars

\* ------------------------------------------------------------------------
\* Properties of the debounce cells (SpecSlots)
\* ------------------------------------------------------------------------
LiveOf(k) == {t \in slots.live : t.slot = k}

\* C27: each debounce slot holds at most one live timer, the one whose
\* handle is in its cell; a callback that installs a new timer has stopped
\* the one the cell held; and a timer that was stopped never runs
\* afterwards.
C27_OneLiveTimerPerSlot ==
    /\ [](\A k \in SlotKinds :
             /\ Cardinality(LiveOf(k)) <= 1
             /\ \A t \in LiveOf(k) : slots.cell[k] = <<t.id>>)
    /\ [][\A k \in SlotKinds :
             slots'.cell[k] # slots.cell[k] /\ slots.cell[k] # <<>>
                 => /\ slots.cell[k][1] \in slots'.stopped
                    /\ \A t \in slots'.live : t.id # slots.cell[k][1]]_vars
    /\ [][\A id \in slots'.ran \ slots.ran : id \notin slots.stopped]_vars

\* a timer was stopped before it came due and never ran, a later timer of
\* the same slot has run, and another slot's timer is running
C27_Witness ==
    \E k \in SlotKinds : \E j \in SlotKinds \ {k} :
        /\ \E id \in slots.stopped \ slots.ran, id2 \in slots.ran : id < id2
        /\ slots.cell[k] # <<>> /\ slots.cell[k][1] \in slots.ran
        /\ LiveOf(j) # {}

\* ------------------------------------------------------------------------
\* Properties of the ModeChanged callback (SpecDebounce)
\* ------------------------------------------------------------------------
LastEvent == evLog[Len(evLog)]
ModeEvent == Len(evLog') > Len(evLog) /\ LastEvent'.ev = "mode"
\* what handle_event makes of the editor as it is
SelectionRun(readOk) ==
    selection_handle_event(nvimReady, readOk, editor, LAST_SELECTION)
\* the handler has run within the step: its cache, its record and its
\* broadcast are there when the step is over
RanWithinStep(r) ==
    /\ LAST_SELECTION' = r.cache
    /\ LastEvent'.outcome = Outcome(r, nvimReady)
    /\ Len(handled') = Len(handled) + (IF r.seen # <<>> THEN 1 ELSE 0)
    /\ \A c \in Conns :
          enq'[c] = (IF r.sent # <<>> /\ c \in hub /\ rxAlive[c]
                     THEN Append(enq[c], r.sent[1]) ELSE enq[c])

\* C28: a ModeChanged event runs the selection handler within the callback,
\* at the time of the event, and leaves the debounce cell and its timer as
\* they were: none started, none stopped, no delay.
C28_ModeChangedImmediate ==
    [][ModeEvent =>
          /\ \E readOk \in BOOLEAN : RanWithinStep(SelectionRun(readOk))
          /\ LastEvent'.t = clock
          /\ clock' = clock
          /\ debounce_timer' = debounce_timer]_vars

\* a ModeChanged callback has just broadcast a selection while the timer of
\* an earlier cursor event is still running, not yet due
C28_Witness ==
    /\ evLog # <<>>
    /\ LastEvent.ev = "mode"
    /\ LastEvent.outcome = "sent"
    /\ LastEvent.t = clock
    /\ \E due \in debounce_timer.live : due > clock /\ debounce_timer.cell = <<due>>

\* ------------------------------------------------------------------------
\* Properties of the last-broadcast cells (SpecCells)
\* ------------------------------------------------------------------------
CellOf(kind) ==
    CASE kind = "selection" -> LAST_SELECTION
      [] kind = "visible" -> LAST_VISIBLE_FILES
      [] kind = "diagnostics" -> LAST_DIAGNOSTICS
\* the state a notification of the kind reports, as the cell keeps it
PayloadOf(kind, note) ==
    CASE kind = "selection" -> note.params
      [] kind = "visible" -> note.params.uris
      [] kind = "diagnostics" ->
           [u \in {e.uri : e \in note.params.entries} |->
               (CHOOSE e \in note.params.entries : e.uri = u).diagnostics]
\* the step hands a notification of the kind to Hub::broadcast
BroadcastOccurs(kind) ==
    /\ Len(handled') = Len(handled) + 1
    /\ handled'[Len(handled')].kind = kind
    /\ handled'[Len(handled')].sent # <<>>

Quiescent ==
    /\ \A p \in Producers : sched.prod[p] = "idle"
    /\ ~sched.pending
    /\ ~sched.draining
WasSent(i) == \E k \in 1..Len(sched.sentLog) : sched.sentLog[k] = i
HasRun(i) == \E k \in 1..Len(sched.ran) : sched.ran[k] = i

\* C30: the closures given to schedule_on_main_thread are run exactly once
\* each, in the order of their sends, by the callback on the main thread:
\* what has run followed by what is still in the channel is what was sent;
\* closures run only inside the callback; when nothing is under way the
\* channel is empty; and every closure sent is run in the end.
C30_ExactlyOnceInOrder ==
    /\ [](/\ sched.ran \o sched.chan = sched.sentLog
          /\ (Quiescent => sched.chan = <<>>))
    /\ [][sched'.ran # sched.ran => sched.draining /\ sched'.draining]_vars
    /\ \A i \in 1..MaxWork : WasSent(i) ~> HasRun(i)

\* all closures have run, after wake-ups that were coalesced and a send that
\* came while the callback was draining
C30_Witness ==
    /\ Quiescent
    /\ Len(sched.ran) = MaxWork
    /\ sched.coalesced
    /\ sched.midDrain

\* ------------------------------------------------------------------------
\* Properties of the thread domains (SpecFiles)
\* ------------------------------------------------------------------------
\* C31: code running on the acceptor's or a connection's thread, the RPC
\* handlers called from the message loop included, never calls an editor
\* API: every editor API call is made on the main thread.
C31_NetworkNeverCallsEditor ==
    \A a \in apiCalls : a.thread = "main"

\* C33: a client that has answered every ping of the server with a pong is
\* not closed by the pong-timeout check: the time since its last pong stays
\* below 60 s.
C33_AnsweringClientKept ==
    \A c \in Conns :
        ~hb[c].missed => /\ ~TimedOut(c)
                         /\ SincePong(c) < PONG_TIMEOUT

\* a client that answered its ping, with the next ping about to be due
C33_Witness ==
    \E c \in Conns :
        /\ ~hb[c].missed
        /\ hb[c].pongs = 1
        /\ SincePong(c) >= PING_INTERVAL - READ_TIMEOUT
        /\ pc[c] = "Open"

\* ------------------------------------------------------------------------
\* Properties of the close frame (SpecClose)
\* ------------------------------------------------------------------------
GotCloseFrame(c) == c \in wsClosed' /\ c \notin wsClosed

\* C32: an Open connection that receives a close frame echoes a close frame
\* and leaves the Open state in that same step.
C32_CloseFrameEndsLoop ==
    [][\A c \in Conns :
          GotCloseFrame(c) =>
              /\ sent'[c] = Append(sent[c], CloseEcho)
              /\ pc'[c] # "Open"]_vars

\* ------------------------------------------------------------------------
\* Properties of stop() (SpecStop)
\* ------------------------------------------------------------------------
StopOrder == <<"start", "flag", "join", "remove", "ServerStopped">>
HasLogged(op) == \E i \in 1..Len(lifeLog) : lifeLog[i].op = op

\* C34: stop() on a live server terminates, and it sets the shutdown flag,
\* waits for the acceptor thread to end, removes the lockfile and fires
\* ServerStopped in this order; the acceptor, once it has seen the flag,
\* has left its loop and dispatches no further connection.
C34_StopInOrder ==
    /\ [](/\ Len(lifeLog) <= Len(StopOrder)
          /\ \A i \in 1..Len(lifeLog) : lifeLog[i].op = StopOrder[i]
          /\ HasLogged("flag") /\ ~HasLogged("join") => "p1" \in acceptors
          /\ HasLogged("join") => halt.acc = "done" /\ acceptors = {}
          /\ HasLogged("start") /\ ~HasLogged("remove") => lockfile["p1"] # NoFile
          /\ HasLogged("remove") => lockfile["p1"] = NoFile)
    /\ [][halt.acc = "done" =>
             /\ halt'.acc = "done"
             /\ \A c \in Conns : pc[c] = "Unborn" => pc'[c] = "Unborn"]_vars
    /\ (halt.stop = "flagged") ~> (halt.stop = "returned" /\ server = None)

\* stop() has returned on a server that had dispatched a connection
C34_Witness ==
    /\ halt.stop = "returned"
    /\ HasLogged("ServerStopped")
    /\ pc[1] # "Unborn"

\* ------------------------------------------------------------------------
\* Properties of a failed start() (SpecLife)
\* ------------------------------------------------------------------------
\* a start() on a stopped server whose lockfile cannot be written returns
LockfileWriteFails ==
    /\ server = None
    /\ \E t \in ServerTokens, p \in Ports :
          lifeLog' = Append(lifeLog,
              [op |-> "start", res |-> start(server, TRUE, FALSE, t, p)])

\* C35: a start() that cannot create the lockfile directory or write the
\* lockfile fails with ConfigError and leaves no live server: the singleton
\* unset, is_running() false, no acceptor thread.
C35_LockfileFailure ==
    [][LockfileWriteFails =>
          /\ lifeLog'[Len(lifeLog')].res = Err("ConfigError")
          /\ server' = None
          /\ ~is_running(server')
          /\ acceptors' = {}]_vars

\* ------------------------------------------------------------------------
\* Properties of the client ids (SpecIds)
\* ------------------------------------------------------------------------
IsIdCall(i) == lifeLog[i].op = "next_client_id"

\* C36: the ids returned by next_client_id are strictly increasing, and so
\* never repeat, whatever Hub instances, restarts and callers lie between
\* two calls.
C36_ClientIdsIncrease ==
    \A i \in 1..Len(lifeLog) : \A j \in 1..Len(lifeLog) :
        IsIdCall(i) /\ IsIdCall(j) /\ i < j
            => lifeLog[i].res.val < lifeLog[j].res.val

\* two ids taken with a start() that created a new Hub between them
C36_Witness ==
    \E i \in 1..Len(lifeLog) : \E j \in 1..Len(lifeLog) :
        /\ i + 1 < j
        /\ IsIdCall(i) /\ IsIdCall(j)
        /\ \E k \in (i + 1)..(j - 1) :
              lifeLog[k].op = "start" /\ lifeLog[k].res.ok

\* ------------------------------------------------------------------------
\* Properties of the initial state (SpecInitial)
\* ------------------------------------------------------------------------
\* the closure of connection c's burst runs in this step
BurstRuns(c) == <<"BurstState", c>> \in fired' \ fired
\* what the step enqueues for c
Enqueued(c) == SubSeq(enq'[c], Len(enq[c]) + 1, Len(enq'[c]))
CountOf(method, notes) ==
    Cardinality({i \in 1..Len(notes) : notes[i].method = method})

\* C37: a client that has reached Open and stays connected gets in its own
\* initial-state burst one visibleFilesDidChange, one selectionDidChange and
\* one diagnosticsDidChange, also when the editor state equals the one last
\* broadcast.
C37_BurstSendsState ==
    [][\A c \in Conns :
          BurstRuns(c) /\ pc[c] = "Open" /\ is_absolute(editor.wins[editor.cur])
              => \A k \in StateKinds : CountOf(k, Enqueued(c)) = 1]_vars

IsMetadata(m) == "kind" \in DOMAIN m /\ m.kind = "pluginMetadata"

\* C40: each client gets pluginMetadata once during its connection; the
\* burst of another client's connect enqueues none on a client already
\* connected.
C40_MetadataOnce ==
    \A c \in Conns :
        Cardinality({i \in 1..Len(enq[c]) : IsMetadata(enq[c][i])}) <= 1

\* ------------------------------------------------------------------------
\* Properties of rejected frames (SpecRouter)
\* ------------------------------------------------------------------------
\* the router returned an error, or the handler it called failed
Rejected(r) == r.out = "Err" \/ r.err # ""
RejectedOn(c) == last # NoLast /\ last.conn = c /\ Rejected(last.res)

\* C38: a text frame that the router rejects does not close the connection:
\* it stays Open and registered, and a later frame is still processed.
C38_RejectedFrameKeepsOpen ==
    \A c \in Conns :
        RejectedOn(c) =>
            /\ pc[c] = "Open"
            /\ c \in hub
            /\ rxAlive[c]
            /\ nFrames < MaxFrames
                  => ENABLED (\E f \in Frames : HandleTextMessage(c, f))

\* a frame that is not JSON was handled and a further frame can follow
C38_Witness ==
    \E c \in Conns :
        /\ RejectedOn(c)
        /\ ~last.frame.json
        /\ nFrames < MaxFrames

\* ------------------------------------------------------------------------
\* Properties of editFile's outcome (SpecFiles)
\* ------------------------------------------------------------------------
\* C39: when editFile(p, C) returns an error, neither the file nor an open
\* buffer of p has been changed; when it succeeds, the loaded buffer, if
\* there is one, and the file both hold C.
C39_EditAllOrNothing ==
    /\ rt.call # "failed, changed"
    /\ rt.call = "ok" =>
          LET p == rt.edit[1].path
              content == rt.edit[1].content
          IN  /\ disk[p] = <<content>>
              /\ buffers[p] # <<>> => buffers[p] = <<split(content)>>

====
